---- MODULE Spec2Model ----
(***************************************************************************)
(* State-machine model of the response-handling core of the RoboSystems    *)
(* MCP client (src/unnamed/part_003): the SSE connection pool, the result  *)
(* cache with its key derivation, the retry executor, the callTool facade, *)
(* the workspace session and the handlers of streamed and queued responses.*)
(*                                                                         *)
(* Every handler runs to completion between two suspension points (the     *)
(* program is single-threaded JavaScript), so each handler is one action.  *)
(* Date.now() is the variable now; it advances only in Tick steps, so      *)
(* several handlers may run at the same clock instant.                     *)
(***************************************************************************)
EXTENDS Integers, Sequences, FiniteSets, TLC

VARIABLES
    now,          \* Date.now(), in ms
    ticks,        \* number of clock advances so far (bounds the run)
    connections,  \* SSEConnectionPool.connections: entries in Map insertion order
    timers,       \* pending setTimeout callbacks of the pool
    closeCount,   \* per EventSource created: how many times close() was called
    created,      \* number of EventSources constructed so far
    poolCall,     \* the last pool call and what it returned
    keyCall,      \* the last generateKey call: its inputs, the data hashed, the key
    keyPrev,      \* the generateKey call before it
    cache,        \* ResultCache.cache: key -> result
    cacheExpiry,  \* ResultCache.cacheExpiry: key -> expiry time in ms
    stored,       \* history: per key, the value and expiry of the last set since clear,
                  \* and the graph the value came from
    cacheCall,    \* the last cache call and what it returned
    retry,        \* the running executeWithRetry call: position, attempt, lastError,
                  \* the backoff delays it waited, and what it returned
    invocations,  \* the outcomes of the invocations of fn, in order
    activeGraphId,\* RoboSystemsMCPClient.activeGraphId
    workspaces,   \* RoboSystemsMCPClient.workspaces: entries in Map insertion order
    metrics,      \* RoboSystemsMCPClient.metrics
    sessionCall,  \* the last callTool of a session tool and its outcome
    toolCall,     \* the running or last callTool of a remote tool: its position,
                  \* what it returned, and the graph id each request went to
    events,       \* the events collected from one streamed response, in order
    aggregated,   \* what aggregateStreamedResults made of them, or null before
    ndjson,       \* the running handleNDJSONResponse: the text read so far, the
                  \* buffer, and whether the stream has ended
    sse,          \* the handleSSEResponse calls: position, operation id,
                  \* EventSource, events collected, pending timeout, outcome,
                  \* and the event or timer that settled it
    queued        \* the running handleQueuedResponse: position, attempts, delay,
                  \* the polls sent and what it returned

poolVars == <<connections, timers, closeCount, created, poolCall>>
keyVars == <<keyCall, keyPrev>>
cacheVars == <<cache, cacheExpiry, stored, cacheCall>>
retryVars == <<retry, invocations>>
clientVars == <<activeGraphId, workspaces, metrics, sessionCall, toolCall>>
streamVars == <<events, aggregated, ndjson, sse, queued>>
vars == <<now, ticks, poolVars, keyVars, cacheVars, retryVars, clientVars, streamVars>>

----------------------------------------------------------------------------
(* Bounds of the model *)

MaxCreated == 4    \* EventSources constructed in one run
PoolMaxTicks == 1  \* clock advances in one run of the pool
CacheMaxTicks == 2 \* clock advances in one run of the cache
MaxAtom == 2       \* numbers 1..MaxAtom occur in tool arguments
MaxCalls == 3      \* callTool calls in one run of the client
MaxListed == 2     \* workspaces in one answer of the service to list-workspaces
FacadeMaxTicks == 1 \* clock advances in one run of the facade
MaxEvents == 3     \* events in one streamed response
MaxBody == 4       \* characters in one NDJSON body
SseMaxCalls == 1   \* handleSSEResponse calls in one run
SseMaxEvents == 2  \* events one handleSSEResponse call collects
TtlMaxCreated == 3 \* EventSources constructed in one run of the pool's timers
TtlMaxTicks == 2   \* 1 ms clock advances in one run of the pool's timers

(* Program constants *)

maxConnections == 3      \* new SSEConnectionPool(3), as in the pool's tests
connectionTTL == 30000
maxRetries == 3
baseRetryDelay == 1000

\* One operation id more than the pool can hold.
OperationIds == 1..(maxConnections + 1)
NoId == 0          \* JavaScript null for `oldest`
NoHandle == 0      \* no EventSource

----------------------------------------------------------------------------
(* SSEConnectionPool *)

Has(conns, operationId) == \E i \in 1..Len(conns) : conns[i].id = operationId

IndexOf(conns, operationId) ==
    CHOOSE i \in 1..Len(conns) : conns[i].id = operationId

RemoveAt(s, i) == SubSeq(s, 1, i - 1) \o SubSeq(s, i + 1, Len(s))

Ids(conns) == {conns[i].id : i \in 1..Len(conns)}

\* The pool as one value, so that the methods compose as they call each other.
Pool == [connections |-> connections, timers |-> timers, closeCount |-> closeCount]

\* A closeConnection without the clearTimeout.
closeConnection_keepsTimer(P, operationId) ==
    IF Has(P.connections, operationId)
    THEN LET i == IndexOf(P.connections, operationId)
             conn == P.connections[i]
         IN  [connections |-> RemoveAt(P.connections, i),
              timers      |-> P.timers,
              closeCount  |-> [P.closeCount EXCEPT ![conn.eventSource] = @ + 1]]
    ELSE P

\* closeConnection(operationId): clearTimeout, close(), Map.delete, if present.
closeConnection(P, operationId) ==
    IF Has(P.connections, operationId)
    THEN LET i == IndexOf(P.connections, operationId)
             conn == P.connections[i]
         IN  [connections |-> RemoveAt(P.connections, i),
              timers      |-> {t \in P.timers : t.timer # conn.cleanupTimer},
              closeCount  |-> [P.closeCount EXCEPT ![conn.eventSource] = @ + 1]]
    ELSE P

\* The for-of loop of evictOldest from entry i on: strict <, so the first
\* entry in scan order wins a tie, and an entry whose lastUsed equals the
\* initial oldestTime (Date.now()) is never chosen.
RECURSIVE OldestScan(_, _, _, _)
OldestScan(conns, i, oldest, oldestTime) ==
    IF i > Len(conns) THEN oldest
    ELSE IF conns[i].lastUsed < oldestTime
         THEN OldestScan(conns, i + 1, conns[i].id, conns[i].lastUsed)
         ELSE OldestScan(conns, i + 1, oldest, oldestTime)

evictOldest(P, t) ==
    LET oldest == OldestScan(P.connections, 1, NoId, t)
    IN  IF oldest # NoId THEN closeConnection(P, oldest) ELSE P

\* A closeAll that closes every EventSource of the pool and leaves the Map as it is.
closeAll_keepsEntries(P) ==
    [P EXCEPT !.closeCount =
        [h \in DOMAIN P.closeCount |->
            IF \E i \in 1..Len(P.connections) : P.connections[i].eventSource = h
            THEN P.closeCount[h] + 1 ELSE P.closeCount[h]]]

\* closeAll: the for-of loop over the Map visits every entry once, deleting
\* the visited entry.
RECURSIVE closeAll(_)
closeAll(P) ==
    IF Len(P.connections) = 0 THEN P
    ELSE closeAll(closeConnection(P, P.connections[1].id))

\* A getConnection without the lookup of an existing entry.
getConnectionPool_noReuse(P, operationId, t, h) ==
    LET Q == IF Len(P.connections) >= maxConnections THEN evictOldest(P, t) ELSE P
    IN  [connections |-> Append(Q.connections,
                            [id |-> operationId, eventSource |-> h,
                             createdAt |-> t, lastUsed |-> t, cleanupTimer |-> h]),
         timers      |-> Q.timers \cup
                            {[timer |-> h, operationId |-> operationId,
                              fireAt |-> t + connectionTTL]},
         closeCount  |-> Q.closeCount]

\* A getConnection whose reuse also schedules the cleanup anew.
getConnectionPool_rearms(P, operationId, t, h) ==
    IF Has(P.connections, operationId)
    THEN LET conn == P.connections[IndexOf(P.connections, operationId)]
         IN  [P EXCEPT !.connections[IndexOf(P.connections, operationId)].lastUsed = t,
                       !.timers = {x \in P.timers : x.timer # conn.cleanupTimer} \cup
                                     {[timer |-> conn.cleanupTimer,
                                       operationId |-> operationId,
                                       fireAt |-> t + connectionTTL]}]
    ELSE getConnectionPool_noReuse(P, operationId, t, h)

\* getConnection(operationId, url, headers) at time t; h is the EventSource a
\* `new EventSource` would construct.  The result is the pool afterwards.
getConnectionPool(P, operationId, t, h) ==
    IF Has(P.connections, operationId)
    THEN [P EXCEPT !.connections[IndexOf(P.connections, operationId)].lastUsed = t]
    ELSE LET Q == IF Len(P.connections) >= maxConnections THEN evictOldest(P, t) ELSE P
         IN  [connections |-> Append(Q.connections,
                                 [id |-> operationId, eventSource |-> h,
                                  createdAt |-> t, lastUsed |-> t, cleanupTimer |-> h]),
              timers      |-> Q.timers \cup
                                 {[timer |-> h, operationId |-> operationId,
                                   fireAt |-> t + connectionTTL]},
              closeCount  |-> Q.closeCount]

\* What getConnection returns.
getConnectionReturn(P, operationId, h) ==
    IF Has(P.connections, operationId)
    THEN P.connections[IndexOf(P.connections, operationId)].eventSource
    ELSE h

\* The EventSources on which a call that takes the pool from P to Q calls close().
ClosedBy(P, Q) == {h \in DOMAIN P.closeCount : Q.closeCount[h] # P.closeCount[h]}

\* The pool becomes Q; the call is recorded with the handle it returned and
\* the EventSources it closed.
SetPool(Q, op, operationId, ret) ==
    /\ connections' = Q.connections
    /\ timers' = Q.timers
    /\ closeCount' = Q.closeCount
    /\ poolCall' = [op |-> op, id |-> operationId, ret |-> ret,
                    closed |-> ClosedBy(Pool, Q)]

GetConnection(operationId) ==
    /\ Has(connections, operationId) \/ created < MaxCreated
    /\ SetPool(getConnectionPool(Pool, operationId, now, created + 1),
               "getConnection", operationId,
               getConnectionReturn(Pool, operationId, created + 1))
    /\ created' = IF Has(connections, operationId) THEN created ELSE created + 1
    /\ UNCHANGED <<now, ticks, keyVars, cacheVars, retryVars, clientVars, streamVars>>

CloseConnection(operationId) ==
    /\ SetPool(closeConnection(Pool, operationId), "closeConnection", operationId, NoHandle)
    /\ UNCHANGED <<now, ticks, created, keyVars, cacheVars, retryVars, clientVars, streamVars>>

CloseAll ==
    /\ SetPool(closeAll(Pool), "closeAll", NoId, NoHandle)
    /\ UNCHANGED <<now, ticks, created, keyVars, cacheVars, retryVars, clientVars, streamVars>>

\* The cleanup timer of an entry fires (at or after its due time): the timer
\* leaves the pending set and its callback runs closeConnection(operationId).
Expire(t) ==
    /\ t \in timers
    /\ now >= t.fireAt
    /\ SetPool(closeConnection([Pool EXCEPT !.timers = timers \ {t}], t.operationId),
               "expire", t.operationId, NoHandle)
    /\ UNCHANGED <<now, ticks, created, keyVars, cacheVars, retryVars, clientVars, streamVars>>

\* The clock advances by d ms, at most maxTicks times in a run.
Tick(d, maxTicks) ==
    /\ ticks < maxTicks
    /\ now' = now + d
    /\ ticks' = ticks + 1
    /\ UNCHANGED <<poolVars, keyVars, cacheVars, retryVars, clientVars, streamVars>>

(* The clock of the timers: setTimeout runs a callback when its delay is    *)
(* over, so the clock does not pass the due time of a pending timer.       *)

\* The clock advances by d ms, not beyond the due time of a pending timer.
Elapse(d, maxTicks) ==
    /\ \A t \in timers : now + d <= t.fireAt
    /\ Tick(d, maxTicks)

\* The clock advances to the due time of the pending timer that is due first.
ToDeadline ==
    /\ timers # {}
    /\ \A t \in timers : now < t.fireAt
    /\ \E t \in timers :
          /\ \A u \in timers : t.fireAt <= u.fireAt
          /\ now' = t.fireAt
    /\ UNCHANGED <<ticks, poolVars, keyVars, cacheVars, retryVars, clientVars, streamVars>>

\* A timer that is due fires.
ExpireDue == \E t \in timers : Expire(t)

----------------------------------------------------------------------------
(* JavaScript values, as JSON.parse builds them.  A value is a record with  *)
(* one field that names its kind: a number, a string, null, an array, or   *)
(* an object, whose own properties are kept in property (insertion) order. *)

Num(n) == [num |-> n]
Str(s) == [str |-> s]
Null == [null |-> TRUE]
Arr(items) == [arr |-> items]
Obj(props) == [obj |-> props]      \* props: sequence of [k |-> key, v |-> value]

IsArr(x) == DOMAIN x = {"arr"}
IsObj(x) == DOMAIN x = {"obj"}

\* Object.keys(x): the own enumerable property names, in property order.
ObjectKeys(x) == [i \in 1..Len(x.obj) |-> x.obj[i].k]

KeySet(x) == {x.obj[i].k : i \in 1..Len(x.obj)}

\* x[key] for an own property.
GetProp(x, key) == x.obj[CHOOSE i \in 1..Len(x.obj) : x.obj[i].k = key].v

\* The property names of the model in UTF-16 code unit order, the order of
\* Array.prototype.sort() without a comparator ('_' is 0x5F, 'a' is 0x61).
CodeUnitOrder == <<"__proto__", "a", "b">>

\* keys.sort() for a sequence of distinct property names.
SortKeys(keys) ==
    SelectSeq(CodeUnitOrder, LAMBDA k : \E i \in 1..Len(keys) : keys[i] = k)

\* x[key] = value on a plain object created by {}: the assignment to
\* "__proto__" runs the setter inherited from Object.prototype and creates
\* no own property; any other key is replaced in place or appended.
SetProp(x, key, value) ==
    IF key = "__proto__" THEN x
    ELSE IF key \in KeySet(x)
         THEN Obj([i \in 1..Len(x.obj) |->
                     IF x.obj[i].k = key THEN [k |-> key, v |-> value] ELSE x.obj[i]])
         ELSE Obj(Append(x.obj, [k |-> key, v |-> value]))

----------------------------------------------------------------------------
(* ResultCache.generateKey *)

\* A _sortObjectKeys that copies the properties in the order it finds them.
RECURSIVE sortObjectKeys_unsorted(_)
sortObjectKeys_unsorted(x) ==
    IF IsArr(x) THEN Arr([i \in 1..Len(x.arr) |-> sortObjectKeys_unsorted(x.arr[i])])
    ELSE IF IsObj(x)
    THEN LET keys == ObjectKeys(x)
             RECURSIVE Fill(_, _)
             Fill(sortedObj, i) ==
                 IF i > Len(keys) THEN sortedObj
                 ELSE Fill(SetProp(sortedObj, keys[i],
                                   sortObjectKeys_unsorted(GetProp(x, keys[i]))), i + 1)
         IN  Fill(Obj(<<>>), 1)
    ELSE x

\* _sortObjectKeys(obj): primitives and null as they are, arrays mapped, and
\* an object rebuilt by assigning its properties in sorted key order.
RECURSIVE sortObjectKeys(_)
sortObjectKeys(x) ==
    IF IsArr(x) THEN Arr([i \in 1..Len(x.arr) |-> sortObjectKeys(x.arr[i])])
    ELSE IF IsObj(x)
    THEN LET keys == SortKeys(ObjectKeys(x))
             RECURSIVE Fill(_, _)
             Fill(sortedObj, i) ==
                 IF i > Len(keys) THEN sortedObj
                 ELSE Fill(SetProp(sortedObj, keys[i],
                                   sortObjectKeys(GetProp(x, keys[i]))), i + 1)
         IN  Fill(Obj(<<>>), 1)
    ELSE x

\* A JSON string literal.
Quote(s) == <<"\"", s, "\"">>

\* JSON.stringify(x, null, 0) as a sequence of tokens: the own properties of
\* an object in property order, the elements of an array in index order.
RECURSIVE Stringify(_)
Stringify(x) ==
    IF IsArr(x)
    THEN LET RECURSIVE Items(_)
             Items(i) == IF i > Len(x.arr) THEN <<>>
                         ELSE (IF i > 1 THEN <<",">> ELSE <<>>)
                              \o Stringify(x.arr[i]) \o Items(i + 1)
         IN  <<"[">> \o Items(1) \o <<"]">>
    ELSE IF IsObj(x)
    THEN LET RECURSIVE Members(_)
             Members(i) == IF i > Len(x.obj) THEN <<>>
                           ELSE (IF i > 1 THEN <<",">> ELSE <<>>)
                                \o Quote(x.obj[i].k) \o <<":">>
                                \o Stringify(x.obj[i].v) \o Members(i + 1)
         IN  <<"{">> \o Members(1) \o <<"}">>
    ELSE IF DOMAIN x = {"num"} THEN <<ToString(x.num)>>
    ELSE IF DOMAIN x = {"str"} THEN Quote(x.str)
    ELSE <<"null">>

\* The string that generateKey hashes.
canonicalData(tool, args, workspaceId) ==
    Stringify(Obj(<<[k |-> "tool", v |-> Str(tool)],
                    [k |-> "args", v |-> sortObjectKeys(args)],
                    [k |-> "workspace", v |-> workspaceId]>>))

\* createHash('sha256').update(data).digest('hex'), taken as collision-free:
\* the digest stands for the data it was computed from.
sha256hex(data) == <<"sha256">> \o data

generateKey(tool, args, workspaceId) ==
    sha256hex(canonicalData(tool, args, workspaceId))

\* The inputs of the model: objects over the given key orders, arrays up to
\* a length, numbers as leaves.
ObjsOver(keySeqs, vals) ==
    UNION {{Obj([i \in 1..Len(ks) |-> [k |-> ks[i], v |-> f[i]]]) :
                f \in [1..Len(ks) -> vals]} : ks \in keySeqs}

ArrsOver(vals, maxLen) ==
    UNION {{Arr(f) : f \in [1..n -> vals]} : n \in 0..maxLen}

Atoms == {Num(n) : n \in 1..MaxAtom}

BothOrders == {<<"a", "b">>, <<"b", "a">>}

NestedValues ==
    Atoms \cup ObjsOver(BothOrders \cup {<<"__proto__">>}, Atoms)
          \cup ArrsOver(Atoms, 2)
          \cup {Arr(<<o>>) : o \in ObjsOver(BothOrders, Atoms)}

ArgsUniverse ==
    ObjsOver({<<"a">>}, NestedValues)
        \cup ObjsOver(BothOrders \cup {<<"__proto__">>, <<>>}, Atoms)

ToolNames == {"get-graph-schema", "get-graph-info"}

WorkspaceIds == {Null, Str("kg1"), Str("ws1")}

NoKeyCall == [tool |-> "", args |-> Obj(<<>>), workspace |-> Null,
              data |-> <<>>, key |-> <<>>]

\* One call of generateKey(tool, args, workspaceId); a run makes two calls,
\* which the properties compare.
GenerateKey(tool, args, workspaceId) ==
    /\ keyPrev = NoKeyCall
    /\ keyPrev' = keyCall
    /\ keyCall' = [tool |-> tool, args |-> args, workspace |-> workspaceId,
                   data |-> canonicalData(tool, args, workspaceId),
                   key |-> generateKey(tool, args, workspaceId)]
    /\ UNCHANGED <<now, ticks, poolVars, cacheVars, retryVars, clientVars, streamVars>>

----------------------------------------------------------------------------
(* ResultCache.get / set / clear *)

\* The cache as one value.
Cache == [cache |-> cache, cacheExpiry |-> cacheExpiry]

\* Map.delete(key)
MapDelete(m, key) == [k \in DOMAIN m \ {key} |-> m[k]]

\* Map.set(key, value)
MapSet(m, key, value) == [k \in DOMAIN m \cup {key} |-> IF k = key THEN value ELSE m[k]]

\* A get that returns whatever the value map holds, expired or not.
cacheGet_ignoresExpiry(C, tool, args, workspaceId, t) ==
    LET key == generateKey(tool, args, workspaceId)
    IN  IF key \in DOMAIN C.cache
        THEN [cache |-> C.cache, cacheExpiry |-> C.cacheExpiry, ret |-> C.cache[key]]
        ELSE [cache |-> C.cache, cacheExpiry |-> C.cacheExpiry, ret |-> Null]

\* get(tool, args, workspaceId) at time t: the maps afterwards and the value
\* returned.  An entry is live while expiry > Date.now().
cacheGet(C, tool, args, workspaceId, t) ==
    LET key == generateKey(tool, args, workspaceId)
    IN  IF key \in DOMAIN C.cache
        THEN IF C.cacheExpiry[key] > t
             THEN [cache |-> C.cache, cacheExpiry |-> C.cacheExpiry, ret |-> C.cache[key]]
             ELSE [cache |-> MapDelete(C.cache, key),
                   cacheExpiry |-> MapDelete(C.cacheExpiry, key), ret |-> Null]
        ELSE [cache |-> C.cache, cacheExpiry |-> C.cacheExpiry, ret |-> Null]

\* set(tool, args, result, ttlSeconds, workspaceId) at time t.
cacheSet(C, tool, args, result, ttlSeconds, workspaceId, t) ==
    LET key == generateKey(tool, args, workspaceId)
    IN  [cache |-> MapSet(C.cache, key, result),
         cacheExpiry |-> MapSet(C.cacheExpiry, key, t + ttlSeconds * 1000)]

EmptyMap == [k \in {} |-> Null]

\* The inputs of the cache calls: arguments that differ in key order only,
\* two contexts, two results.
CacheArgs ==
    {Obj(<<[k |-> "a", v |-> Num(1)], [k |-> "b", v |-> Num(2)]>>),
     Obj(<<[k |-> "b", v |-> Num(2)], [k |-> "a", v |-> Num(1)]>>)}

CacheTools == {"get-graph-schema"}

CacheWorkspaces == {Str("kg1"), Str("ws1")}

CacheResults == {Str("result 1"), Str("result 2")}

TtlSeconds == {0, 1}

CacheGet(tool, args, workspaceId) ==
    LET r == cacheGet(Cache, tool, args, workspaceId, now)
    IN  /\ cache' = r.cache
        /\ cacheExpiry' = r.cacheExpiry
        /\ cacheCall' = [op |-> "get", tool |-> tool, args |-> args,
                         workspace |-> workspaceId, ret |-> r.ret]
        /\ UNCHANGED <<now, ticks, stored, poolVars, keyVars, retryVars, clientVars, streamVars>>

CacheSet(tool, args, result, ttlSeconds, workspaceId) ==
    LET r == cacheSet(Cache, tool, args, result, ttlSeconds, workspaceId, now)
    IN  /\ cache' = r.cache
        /\ cacheExpiry' = r.cacheExpiry
        /\ stored' = MapSet(stored, generateKey(tool, args, workspaceId),
                            [value |-> result, expiresAt |-> now + ttlSeconds * 1000,
                             graph |-> workspaceId])
        /\ cacheCall' = [op |-> "set", tool |-> tool, args |-> args,
                         workspace |-> workspaceId, ret |-> Null]
        /\ UNCHANGED <<now, ticks, poolVars, keyVars, retryVars, clientVars, streamVars>>

CacheClear ==
    /\ cache' = EmptyMap
    /\ cacheExpiry' = EmptyMap
    /\ stored' = EmptyMap
    /\ cacheCall' = [op |-> "clear", tool |-> "", args |-> Obj(<<>>),
                     workspace |-> Null, ret |-> Null]
    /\ UNCHANGED <<now, ticks, poolVars, keyVars, retryVars, clientVars, streamVars>>

----------------------------------------------------------------------------
(* RoboSystemsMCPClient.executeWithRetry *)

(* A string is a sequence of tokens; every decimal digit is a token of its *)
(* own, so that String.prototype.includes of a status code is a search for *)
(* its three digits in a row.                                              *)

Includes(s, sub) ==
    \E i \in 1..(Len(s) - Len(sub) + 1) : SubSeq(s, i, i + Len(sub) - 1) = sub

\* The decimal digits of a three-digit status code.
Digits(n) == <<ToString(n \div 100), ToString((n \div 10) % 10), ToString(n % 10)>>

\* `HTTP ${response.status}: ${response.statusText}`
HttpMessage(status, statusText) ==
    <<"HTTP ">> \o Digits(status) \o <<": ", statusText>>

\* An error without a message: the rejection value is not an Error.
NoMessage == <<"undefined">>

\* The messages of the failures fn rejects with.
FailureMessages ==
    {HttpMessage(400, "Bad Request"), HttpMessage(401, "Unauthorized"),
     HttpMessage(403, "Forbidden"), HttpMessage(404, "Not Found"),
     HttpMessage(500, "Internal Server Error"),
     <<"fetch failed">>, <<"SSE connection failed">>,
     Digits(500) \o <<" error">>, Digits(401) \o <<" Unauthorized">>,
     <<"HTTP ">> \o Digits(500) \o <<": ", "upstream answered ">> \o Digits(403)}

\* The values fn resolves with.
SuccessValues == {Str("result 1"), Str("result 2")}

\* The condition of the `break`, without the test for '403'.
isClientError_no403(message) ==
    \/ Includes(message, Digits(401))
    \/ Includes(message, Digits(400))

\* error.message.includes('401') || ...('403') || ...('400')
isClientError(message) ==
    \/ Includes(message, Digits(401))
    \/ Includes(message, Digits(403))
    \/ Includes(message, Digits(400))

\* A result text that drops the message of the last failure.
errorResult_noMessage(lastError) ==
    [type |-> "text",
     text |-> <<"Error after ", ToString(maxRetries), " attempts: ", "Unknown error">>]

\* The value returned after the loop.
errorResult(lastError) ==
    [type |-> "text",
     text |-> <<"Error after ", ToString(maxRetries), " attempts: ">>
              \o (IF lastError = Null \/ lastError.message = <<>>
                  THEN <<"Unknown error">> ELSE lastError.message)]

finish(R) == [R EXCEPT !.pc = "done", !.result = errorResult(R.lastError)]

\* A loop test that stops one attempt early.
loopHead_oneShort(R) ==
    IF R.attempt < maxRetries - 1 THEN [R EXCEPT !.pc = "call"] ELSE finish(R)

\* for (...; attempt < this.maxRetries; ...): the next invocation of fn, or the
\* end of the loop.
loopHead(R) ==
    IF R.attempt < maxRetries THEN [R EXCEPT !.pc = "call"] ELSE finish(R)

\* `return await fn()` when fn resolves with value.
onResolve(R, value) == [R EXCEPT !.pc = "done", !.result = value]

\* A catch block whose backoff does not grow.
onReject_constantDelay(R, message) ==
    IF message = NoMessage
    THEN [R EXCEPT !.pc = "threw", !.lastError = [message |-> message]]
    ELSE LET R1 == [R EXCEPT !.lastError = [message |-> message]]
         IN  IF isClientError(message) THEN finish(R1)
             ELSE IF R.attempt < maxRetries - 1
                  THEN [R1 EXCEPT !.pc = "wait", !.waits = Append(@, baseRetryDelay)]
                  ELSE loopHead([R1 EXCEPT !.attempt = @ + 1])

\* The catch block when fn rejects with an error carrying message; an error
\* without a message makes error.message.includes throw out of the executor.
onReject(R, message) ==
    IF message = NoMessage
    THEN [R EXCEPT !.pc = "threw", !.lastError = [message |-> message]]
    ELSE LET R1 == [R EXCEPT !.lastError = [message |-> message]]
         IN  IF isClientError(message) THEN finish(R1)
             ELSE IF R.attempt < maxRetries - 1
                  THEN [R1 EXCEPT !.pc = "wait",
                                  !.waits = Append(@, baseRetryDelay * 2 ^ R.attempt)]
                  ELSE loopHead([R1 EXCEPT !.attempt = @ + 1])

\* The backoff timer fires: attempt++ and the loop test.
onBackoffElapsed(R) == loopHead([R EXCEPT !.attempt = @ + 1])

NoRetry == [pc |-> "idle", attempt |-> 0, lastError |-> Null, waits |-> <<>>,
            result |-> Null]

\* executeWithRetry(fn) is called.
ExecuteWithRetry ==
    /\ retry.pc = "idle"
    /\ retry' = loopHead(retry)
    /\ UNCHANGED <<invocations, now, ticks, poolVars, keyVars, cacheVars, clientVars, streamVars>>

\* fn is invoked and resolves.
FnResolves(value) ==
    /\ retry.pc = "call"
    /\ invocations' = Append(invocations, [ok |-> TRUE, value |-> value])
    /\ retry' = onResolve(retry, value)
    /\ UNCHANGED <<now, ticks, poolVars, keyVars, cacheVars, clientVars, streamVars>>

\* fn is invoked and rejects.
FnRejects(message) ==
    /\ retry.pc = "call"
    /\ invocations' = Append(invocations, [ok |-> FALSE, message |-> message])
    /\ retry' = onReject(retry, message)
    /\ UNCHANGED <<now, ticks, poolVars, keyVars, cacheVars, clientVars, streamVars>>

\* The setTimeout of the backoff resolves.
BackoffElapsed ==
    /\ retry.pc = "wait"
    /\ retry' = onBackoffElapsed(retry)
    /\ UNCHANGED <<invocations, now, ticks, poolVars, keyVars, cacheVars, clientVars, streamVars>>

----------------------------------------------------------------------------
(* JavaScript values, continued: booleans, undefined, NaN, a string given   *)
(* as a token sequence, and a string that holds the JSON text of a value.   *)

Bool(b) == [bool |-> b]
Undefined == [undef |-> TRUE]
NaN == [nan |-> TRUE]
Text(tokens) == [text |-> tokens]
JsonText(x) == [json |-> x]

Falsy == {Undefined, Null, NaN, Bool(FALSE), Num(0), Str(""), Text(<<>>)}

\* The value counts as true in a condition.
Truthy(x) == x \notin Falsy

\* x[key] where the property may be missing.
GetOr(x, key) == IF IsObj(x) /\ key \in KeySet(x) THEN GetProp(x, key) ELSE Undefined

\* `${x}` in a template literal, for a string or undefined.
TemplateText(x) == IF DOMAIN x = {"str"} THEN x.str ELSE "undefined"

Indent(depth) == [i \in 1..depth |-> "  "]

\* JSON.stringify(x, null, 2) as a sequence of tokens, x nested at depth:
\* one member per line, a property whose value is undefined left out, NaN
\* written as null.
RECURSIVE StringifyIndented(_, _)
StringifyIndented(x, depth) ==
    IF IsArr(x)
    THEN IF Len(x.arr) = 0 THEN <<"[]">>
         ELSE LET RECURSIVE Items(_)
                  Items(i) == IF i > Len(x.arr) THEN <<>>
                              ELSE (IF i > 1 THEN <<",">> ELSE <<>>)
                                   \o <<"\n">> \o Indent(depth + 1)
                                   \o StringifyIndented(x.arr[i], depth + 1)
                                   \o Items(i + 1)
              IN  <<"[">> \o Items(1) \o <<"\n">> \o Indent(depth) \o <<"]">>
    ELSE IF IsObj(x)
    THEN LET props == SelectSeq(x.obj, LAMBDA p : p.v # Undefined)
             RECURSIVE Members(_)
             Members(i) == IF i > Len(props) THEN <<>>
                           ELSE (IF i > 1 THEN <<",">> ELSE <<>>)
                                \o <<"\n">> \o Indent(depth + 1)
                                \o Quote(props[i].k) \o <<": ">>
                                \o StringifyIndented(props[i].v, depth + 1)
                                \o Members(i + 1)
         IN  IF Len(props) = 0 THEN <<"{}">>
             ELSE <<"{">> \o Members(1) \o <<"\n">> \o Indent(depth) \o <<"}">>
    ELSE IF DOMAIN x = {"num"} THEN <<ToString(x.num)>>
    ELSE IF DOMAIN x = {"str"} THEN Quote(x.str)
    ELSE IF DOMAIN x = {"text"} THEN <<"\"">> \o x.text \o <<"\"">>
    ELSE IF DOMAIN x = {"json"} THEN <<"\"">> \o Stringify(x.json) \o <<"\"">>
    ELSE IF DOMAIN x = {"bool"} THEN <<IF x.bool THEN "true" ELSE "false">>
    ELSE <<"null">>

\* { type: 'text', text: JSON.stringify(payload, null, 2) }
textResult(payload) == [type |-> "text", text |-> StringifyIndented(payload, 0)]

\* The timestamp one second after the epoch, as an ISO string.
EpochPlusOneSecond == "1970-01-01T00:00:01.000Z"

\* new Date(x).getTime() for a number or a string: NaN for a string that is
\* not a date.
DateGetTime(x) ==
    IF DOMAIN x = {"num"} THEN x
    ELSE IF x = Str(EpochPlusOneSecond) THEN Num(1000)
    ELSE NaN

\* n written with at least `width` digits.
Padded(n, width) ==
    [i \in 1..(width - (IF n < 10 THEN 1 ELSE IF n < 100 THEN 2 ELSE 3)) |-> "0"]
        \o <<ToString(n)>>

\* new Date(ms).toISOString() within the first minute after the epoch.
toISOString(ms) ==
    <<"1970-01-01T00:00:">> \o Padded(ms \div 1000, 2) \o <<".">>
        \o Padded(ms % 1000, 3) \o <<"Z">>

----------------------------------------------------------------------------
(* RoboSystemsMCPClient: the workspace session *)

\* The graph id the client is constructed with.
primaryGraphId == Str("kg1")

\* this.workspaces, a Map from id to metadata, as entries in insertion order.
WsHas(ws, id) == \E i \in 1..Len(ws) : ws[i].id = id

WsIndex(ws, id) == CHOOSE i \in 1..Len(ws) : ws[i].id = id

WsGet(ws, id) == ws[WsIndex(ws, id)].meta

WsSet(ws, id, meta) ==
    IF WsHas(ws, id) THEN [ws EXCEPT ![WsIndex(ws, id)].meta = meta]
    ELSE Append(ws, [id |-> id, meta |-> meta])

WsDelete(ws, id) == SelectSeq(ws, LAMBDA e : e.id # id)

\* Array.from(this.workspaces.keys())
WsKeys(ws) == [i \in 1..Len(ws) |-> ws[i].id]

WsKeySet(ws) == {ws[i].id : i \in 1..Len(ws)}

\* The entry the constructor seeds the map with, at time t.
primaryEntry(t) ==
    [id |-> primaryGraphId,
     meta |-> [type |-> Str("primary"), name |-> Str("main"),
               created_at |-> Num(t), parent_graph_id |-> Null]]

\* The session state as one value.
Session ==
    [activeGraphId |-> activeGraphId, workspaces |-> workspaces,
     workspaceSwitches |-> metrics.workspaceSwitches]

\* The handler resolves with a text result, the session now being S, after
\* the requests listed (the graph id each was sent to).
Returned(S, payload, requests) ==
    [activeGraphId |-> S.activeGraphId, workspaces |-> S.workspaces,
     workspaceSwitches |-> S.workspaceSwitches,
     outcome |-> "resolved", ret |-> textResult(payload), requests |-> requests]

\* The handler rejects with an Error carrying message.
Threw(S, message, requests) ==
    [activeGraphId |-> S.activeGraphId, workspaces |-> S.workspaces,
     workspaceSwitches |-> S.workspaceSwitches,
     outcome |-> "rejected", ret |-> [message |-> message], requests |-> requests]

(* What the remote service does with one request: fetch rejects, or the    *)
(* response is not ok, or response.json() gives data.                      *)
NetworkError(message) == [kind |-> "network", message |-> message]
HttpError(status, errorText) == [kind |-> "http", status |-> status, errorText |-> errorText]
Body(data) == [kind |-> "body", data |-> data]

\* The body { result: { type: 'text', text } }
Envelope(text) ==
    Obj(<<[k |-> "result",
           v |-> Obj(<<[k |-> "type", v |-> Str("text")], [k |-> "text", v |-> text]>>)]>>)

\* The message of the Error thrown before the body is read: that of the
\* fetch, or `HTTP ${response.status}: ${errorText}`.
requestFailure(resp) ==
    IF resp.kind = "network" THEN resp.message
    ELSE HttpMessage(resp.status, resp.errorText)

\* The `result` the handlers take out of data: the JSON in result.text, or
\* { message: text } when that text is not JSON, or data.result || data.
parseResult(data) ==
    LET result == GetOr(data, "result")
        text == GetOr(result, "text")
    IN  IF Truthy(result) /\ GetOr(result, "type") = Str("text") /\ Truthy(text)
        THEN IF DOMAIN text = {"json"} THEN text.json
             ELSE Obj(<<[k |-> "message", v |-> text]>>)
        ELSE IF Truthy(result) THEN result ELSE data

\* A switch that skips the lookup of the target in the map.
handleSwitchWorkspace_noValidation(S, args) ==
    LET workspace_id == GetOr(args, "workspace_id")
        targetGraphId == IF workspace_id = Str("primary") THEN primaryGraphId
                         ELSE workspace_id
    IN  Returned([S EXCEPT !.activeGraphId = targetGraphId,
                           !.workspaceSwitches = @ + 1],
                 Obj(<<[k |-> "success", v |-> Bool(TRUE)],
                       [k |-> "switched_from", v |-> S.activeGraphId],
                       [k |-> "switched_to", v |-> targetGraphId]>>), <<>>)

\* A switch that treats the active workspace like any other target.
handleSwitchWorkspace_noShortcut(S, args) ==
    LET workspace_id == GetOr(args, "workspace_id")
        targetGraphId == IF workspace_id = Str("primary") THEN primaryGraphId
                         ELSE workspace_id
    IN  IF ~WsHas(S.workspaces, targetGraphId)
        THEN Returned(S,
                 Obj(<<[k |-> "error", v |-> Str("Unknown workspace")],
                       [k |-> "workspace_id", v |-> targetGraphId],
                       [k |-> "available_workspaces",
                        v |-> Arr(WsKeys(S.workspaces))]>>), <<>>)
        ELSE Returned([S EXCEPT !.activeGraphId = targetGraphId,
                                !.workspaceSwitches = @ + 1],
                 Obj(<<[k |-> "success", v |-> Bool(TRUE)],
                       [k |-> "switched_from", v |-> S.activeGraphId],
                       [k |-> "switched_to", v |-> targetGraphId]>>), <<>>)

\* _handleSwitchWorkspace(args): no request is sent.
handleSwitchWorkspace(S, args) ==
    LET workspace_id == GetOr(args, "workspace_id")
        targetGraphId == IF workspace_id = Str("primary") THEN primaryGraphId
                         ELSE workspace_id
    IN  IF ~WsHas(S.workspaces, targetGraphId)
        THEN Returned(S,
                 Obj(<<[k |-> "error", v |-> Str("Unknown workspace")],
                       [k |-> "workspace_id", v |-> targetGraphId],
                       [k |-> "message",
                        v |-> Text(<<"Workspace \"", TemplateText(targetGraphId),
                                     "\" not found. Use list-workspaces to see available workspaces.">>)],
                       [k |-> "available_workspaces",
                        v |-> Arr(WsKeys(S.workspaces))]>>), <<>>)
        ELSE IF S.activeGraphId = targetGraphId
        THEN Returned(S,
                 Obj(<<[k |-> "success", v |-> Bool(TRUE)],
                       [k |-> "workspace_id", v |-> targetGraphId],
                       [k |-> "message",
                        v |-> Text(<<"Already in workspace \"",
                                     TemplateText(targetGraphId), "\"">>)]>>), <<>>)
        ELSE LET workspace == WsGet(S.workspaces, targetGraphId)
             IN  Returned([S EXCEPT !.activeGraphId = targetGraphId,
                                    !.workspaceSwitches = @ + 1],
                     Obj(<<[k |-> "success", v |-> Bool(TRUE)],
                           [k |-> "switched_from", v |-> S.activeGraphId],
                           [k |-> "switched_to", v |-> targetGraphId],
                           [k |-> "workspace_type", v |-> workspace.type],
                           [k |-> "message",
                            v |-> Text((IF workspace.type = Str("primary")
                                        THEN <<"Switched to ", "primary graph">>
                                        ELSE <<"Switched to ", "workspace \"",
                                               TemplateText(workspace.name), "\"">>)
                                       \o <<". All operations now use this environment.">>)]>>),
                     <<>>)

\* A create that sends its request to the graph that is active.
handleCreateWorkspace_toActive(S, args, resp, t) ==
    LET result == parseResult(resp.data)
        workspaceId == GetOr(result, "workspace_id")
    IN  IF resp.kind # "body" \/ Truthy(GetOr(result, "error"))
        THEN Returned(S, Obj(<<[k |-> "error", v |-> Str("Failed to create workspace")]>>),
                      <<S.activeGraphId>>)
        ELSE Returned([activeGraphId |-> workspaceId,
                       workspaces |->
                           WsSet(S.workspaces, workspaceId,
                                 [type |-> Str("workspace"), name |-> GetOr(args, "name"),
                                  created_at |-> Num(t),
                                  parent_graph_id |-> primaryGraphId]),
                       workspaceSwitches |-> S.workspaceSwitches + 1],
                      Obj(<<[k |-> "success", v |-> Bool(TRUE)],
                            [k |-> "workspace_id", v |-> workspaceId]>>),
                      <<S.activeGraphId>>)

\* A create that records the workspace and leaves the active context alone.
handleCreateWorkspace_noSwitch(S, args, resp, t) ==
    LET name == GetOr(args, "name")
        result == parseResult(resp.data)
        workspaceId == GetOr(result, "workspace_id")
    IN  IF resp.kind # "body" \/ Truthy(GetOr(result, "error"))
        THEN Returned(S, Obj(<<[k |-> "error", v |-> Str("Failed to create workspace")]>>),
                      <<primaryGraphId>>)
        ELSE Returned([S EXCEPT !.workspaces =
                          WsSet(S.workspaces, workspaceId,
                                [type |-> Str("workspace"), name |-> name,
                                 created_at |-> Num(t),
                                 parent_graph_id |-> primaryGraphId])],
                      Obj(<<[k |-> "success", v |-> Bool(TRUE)],
                            [k |-> "workspace_id", v |-> workspaceId],
                            [k |-> "previous_workspace", v |-> S.activeGraphId]>>),
                      <<primaryGraphId>>)

\* _handleCreateWorkspace(args) at time t, the remote service answering the
\* one request with resp.  The description of a workspace is left out.
handleCreateWorkspace(S, args, resp, t) ==
    LET name == GetOr(args, "name")
        fork_parent == IF GetOr(args, "fork_parent") = Undefined THEN Bool(FALSE)
                       ELSE GetOr(args, "fork_parent")
        subgraph_type == IF GetOr(args, "subgraph_type") = Undefined THEN Str("static")
                         ELSE GetOr(args, "subgraph_type")
        failed(message) ==
            Returned(S,
                Obj(<<[k |-> "error", v |-> Str("Failed to create workspace")],
                      [k |-> "message", v |-> Text(message)],
                      [k |-> "workspace_name", v |-> name]>>), <<primaryGraphId>>)
    IN  IF subgraph_type \notin {Str("static"), Str("memory")}
        THEN Threw(S, <<"Invalid subgraph_type \"", TemplateText(subgraph_type),
                        "\". Must be one of: ", "static, memory">>, <<>>)
        ELSE IF resp.kind # "body" THEN failed(requestFailure(resp))
        ELSE LET result == parseResult(resp.data)
                 workspaceId == GetOr(result, "workspace_id")
             IN  IF Truthy(GetOr(result, "error"))
                 THEN Returned(S, result, <<primaryGraphId>>)
                 ELSE Returned(
                         [activeGraphId |-> workspaceId,
                          workspaces |->
                              WsSet(S.workspaces, workspaceId,
                                    [type |-> Str("workspace"), name |-> name,
                                     created_at |-> Num(t),
                                     parent_graph_id |-> primaryGraphId]),
                          workspaceSwitches |-> S.workspaceSwitches + 1],
                         Obj(<<[k |-> "success", v |-> Bool(TRUE)],
                               [k |-> "workspace_id", v |-> workspaceId],
                               [k |-> "name", v |-> name],
                               [k |-> "previous_workspace", v |-> S.activeGraphId],
                               [k |-> "active", v |-> Bool(TRUE)],
                               [k |-> "forked_from_parent", v |-> fork_parent],
                               [k |-> "message",
                                v |-> Text(<<"Created workspace \"", TemplateText(name),
                                             "\" and switched to it. All operations now use this isolated environment.">>)]>>),
                         <<primaryGraphId>>)

\* A delete that sends its request again after a failure, three times in all.
handleDeleteWorkspace_retries(S, args, resp) ==
    LET workspace_id == GetOr(args, "workspace_id")
    IN  IF resp.kind # "body"
        THEN Returned(S, Obj(<<[k |-> "error", v |-> Str("Failed to delete workspace")]>>),
                      <<primaryGraphId, primaryGraphId, primaryGraphId>>)
        ELSE IF Truthy(GetOr(parseResult(resp.data), "error"))
        THEN Returned(S, parseResult(resp.data), <<primaryGraphId>>)
        ELSE Returned([S EXCEPT !.activeGraphId = IF @ = workspace_id THEN primaryGraphId
                                                  ELSE @,
                                !.workspaces = WsDelete(S.workspaces, workspace_id)],
                      Obj(<<[k |-> "success", v |-> Bool(TRUE)]>>), <<primaryGraphId>>)

\* A delete that removes the entry and leaves the active context alone.
handleDeleteWorkspace_noFallback(S, args, resp) ==
    LET workspace_id == GetOr(args, "workspace_id")
    IN  IF resp.kind # "body" \/ Truthy(GetOr(parseResult(resp.data), "error"))
        THEN Returned(S, Obj(<<[k |-> "error", v |-> Str("Failed to delete workspace")]>>),
                      <<primaryGraphId>>)
        ELSE Returned([S EXCEPT !.workspaces = WsDelete(S.workspaces, workspace_id)],
                      Obj(<<[k |-> "success", v |-> Bool(TRUE)],
                            [k |-> "deleted", v |-> workspace_id],
                            [k |-> "active_workspace", v |-> S.activeGraphId],
                            [k |-> "switched_back_to_primary", v |-> Bool(FALSE)]>>),
                      <<primaryGraphId>>)

\* _handleDeleteWorkspace(args), the remote service answering with resp.
handleDeleteWorkspace(S, args, resp) ==
    LET workspace_id == GetOr(args, "workspace_id")
        failed(message) ==
            Returned(S,
                Obj(<<[k |-> "error", v |-> Str("Failed to delete workspace")],
                      [k |-> "message", v |-> Text(message)],
                      [k |-> "workspace_id", v |-> workspace_id]>>), <<primaryGraphId>>)
    IN  IF resp.kind # "body" THEN failed(requestFailure(resp))
        ELSE LET result == parseResult(resp.data)
                 switchedBack == S.activeGraphId = workspace_id
                 S1 == [activeGraphId |-> IF switchedBack THEN primaryGraphId
                                          ELSE S.activeGraphId,
                        workspaces |-> WsDelete(S.workspaces, workspace_id),
                        workspaceSwitches |-> IF switchedBack
                                              THEN S.workspaceSwitches + 1
                                              ELSE S.workspaceSwitches]
             IN  IF Truthy(GetOr(result, "error"))
                 THEN Returned(S, result, <<primaryGraphId>>)
                 ELSE Returned(S1,
                         Obj(<<[k |-> "success", v |-> Bool(TRUE)],
                               [k |-> "deleted", v |-> workspace_id],
                               [k |-> "active_workspace", v |-> S1.activeGraphId],
                               [k |-> "switched_back_to_primary", v |-> Bool(switchedBack)],
                               [k |-> "message",
                                v |-> IF Truthy(GetOr(result, "message"))
                                      THEN GetOr(result, "message")
                                      ELSE Text(<<"Deleted workspace \"",
                                                  TemplateText(workspace_id), "\"">>
                                                \o (IF switchedBack
                                                    THEN <<" and switched back to primary graph">>
                                                    ELSE <<>>)
                                                \o <<".">>)]>>),
                         <<primaryGraphId>>)

\* The loop that rebuilds the map from the server's list, from entry i on.
RECURSIVE rebuildWorkspaces(_, _, _, _)
rebuildWorkspaces(ws, list, i, t) ==
    IF i > Len(list) THEN ws
    ELSE rebuildWorkspaces(
             WsSet(ws, GetOr(list[i], "workspace_id"),
                   [type |-> GetOr(list[i], "type"),
                    name |-> GetOr(list[i], "name"),
                    created_at |-> IF Truthy(GetOr(list[i], "created_at"))
                                   THEN DateGetTime(GetOr(list[i], "created_at"))
                                   ELSE Num(t),
                    parent_graph_id |-> GetOr(list[i], "parent_graph_id")]),
             list, i + 1, t)

\* The catch block of _handleListWorkspaces: the local set with a note;
\* toISOString throws a RangeError for a created_at that is not a time.
listFallback(S) ==
    IF \E i \in 1..Len(S.workspaces) : DOMAIN S.workspaces[i].meta.created_at # {"num"}
    THEN Threw(S, <<"Invalid time value">>, <<primaryGraphId>>)
    ELSE Returned(S,
            Obj(<<[k |-> "primary_graph_id", v |-> primaryGraphId],
                  [k |-> "active_workspace", v |-> S.activeGraphId],
                  [k |-> "total_workspaces", v |-> Num(Len(S.workspaces))],
                  [k |-> "workspaces",
                   v |-> Arr([i \in 1..Len(S.workspaces) |->
                            LET e == S.workspaces[i]
                            IN  Obj(<<[k |-> "workspace_id", v |-> e.id],
                                      [k |-> "type", v |-> e.meta.type],
                                      [k |-> "name", v |-> e.meta.name],
                                      [k |-> "active", v |-> Bool(e.id = S.activeGraphId)],
                                      [k |-> "created_at",
                                       v |-> Text(toISOString(e.meta.created_at.num))],
                                      [k |-> "parent_graph_id",
                                       v |-> e.meta.parent_graph_id]>>)])],
                  [k |-> "_note",
                   v |-> Str("Fallback to client-side tracking due to error")]>>),
            <<primaryGraphId>>)

\* A listing that merges the server's list into the map instead of
\* replacing the map.
handleListWorkspaces_merges(S, resp, t) ==
    IF resp.kind # "body" THEN listFallback(S)
    ELSE LET result == parseResult(resp.data)
             list == GetOr(result, "workspaces")
         IN  IF Truthy(GetOr(result, "error"))
             THEN Returned(S, result, <<primaryGraphId>>)
             ELSE IF ~Truthy(list)
             THEN listFallback(S)
             ELSE LET S1 == [S EXCEPT !.workspaces =
                                rebuildWorkspaces(S.workspaces, list.arr, 1, t)]
                  IN  Returned(S1,
                          Obj(<<[k |-> "primary_graph_id",
                                 v |-> GetOr(result, "primary_graph_id")],
                                [k |-> "active_workspace", v |-> S1.activeGraphId],
                                [k |-> "total_workspaces", v |-> Num(Len(list.arr))],
                                [k |-> "workspaces",
                                 v |-> Arr([i \in 1..Len(list.arr) |->
                                          SetProp(list.arr[i], "active",
                                              Bool(GetOr(list.arr[i], "workspace_id")
                                                     = S1.activeGraphId))])]>>),
                          <<primaryGraphId>>)

\* _handleListWorkspaces() at time t, the remote service answering with resp.
handleListWorkspaces(S, resp, t) ==
    IF resp.kind # "body" THEN listFallback(S)
    ELSE LET result == parseResult(resp.data)
             list == GetOr(result, "workspaces")
         IN  IF Truthy(GetOr(result, "error"))
             THEN Returned(S, result, <<primaryGraphId>>)
             ELSE IF ~Truthy(list)
             THEN listFallback(S)  \* result.workspaces.map throws a TypeError
             ELSE LET rebuilt == rebuildWorkspaces(<<>>, list.arr, 1, t)
                      gone == ~WsHas(rebuilt, S.activeGraphId)
                      S1 == [activeGraphId |-> IF gone THEN primaryGraphId
                                               ELSE S.activeGraphId,
                             workspaces |-> rebuilt,
                             workspaceSwitches |-> IF gone THEN S.workspaceSwitches + 1
                                                   ELSE S.workspaceSwitches]
                  IN  Returned(S1,
                          Obj(<<[k |-> "primary_graph_id",
                                 v |-> GetOr(result, "primary_graph_id")],
                                [k |-> "active_workspace", v |-> S1.activeGraphId],
                                [k |-> "total_workspaces", v |-> Num(Len(list.arr))],
                                [k |-> "workspaces",
                                 v |-> Arr([i \in 1..Len(list.arr) |->
                                          SetProp(list.arr[i], "active",
                                              Bool(GetOr(list.arr[i], "workspace_id")
                                                     = S1.activeGraphId))])]>>),
                          <<primaryGraphId>>)

(* The inputs of the session tools *)

GraphIds == {primaryGraphId, Str("ws1"), Str("ws2")}

CreateArgs ==
    {Obj(<<[k |-> "name", v |-> Str("scratch")]>>),
     Obj(<<[k |-> "name", v |-> Str("scratch")],
           [k |-> "subgraph_type", v |-> Str("memory")]>>),
     Obj(<<[k |-> "name", v |-> Str("scratch")],
           [k |-> "subgraph_type", v |-> Str("bogus")]>>)}

SwitchArgs ==
    {Obj(<<[k |-> "workspace_id", v |-> id]>>) : id \in GraphIds \cup {Str("primary")}}

DeleteArgs == {Obj(<<[k |-> "workspace_id", v |-> id]>>) : id \in GraphIds}

\* A request that fails: no connection, or a response that is not ok.
RequestFailures ==
    {NetworkError(<<"fetch failed">>), HttpError(500, "Internal Server Error")}

\* A body whose result carries an error field.
ErrorBodies ==
    {Body(Envelope(JsonText(Obj(<<[k |-> "error", v |-> Str("Server error")],
                                  [k |-> "message", v |-> Str("refused")]>>))))}

\* The service created a workspace: the id comes in the JSON of result.text
\* or in a bare body; or the text of the result is not JSON and names no id.
CreateResponses ==
    RequestFailures \cup ErrorBodies
        \cup {Body(Envelope(JsonText(Obj(<<[k |-> "workspace_id", v |-> id]>>)))) :
                 id \in GraphIds \ {primaryGraphId}}
        \cup {Body(Obj(<<[k |-> "workspace_id", v |-> Str("ws1")]>>)),
              Body(Envelope(Str("created")))}

DeleteResponses ==
    RequestFailures \cup ErrorBodies
        \cup {Body(Envelope(JsonText(Obj(<<[k |-> "success", v |-> Bool(TRUE)]>>)))),
              Body(Envelope(Str("Workspace deleted")))}

\* The workspaces the service may list.
ServerWorkspace(id, type, parent, dated) ==
    Obj(<<[k |-> "workspace_id", v |-> id], [k |-> "type", v |-> Str(type)],
          [k |-> "name", v |-> Str("listed")], [k |-> "parent_graph_id", v |-> parent]>>
        \o dated)

ServerWorkspaces ==
    {ServerWorkspace(primaryGraphId, "primary", Null,
                     <<[k |-> "created_at", v |-> Str(EpochPlusOneSecond)]>>),
     ServerWorkspace(Str("ws1"), "workspace", primaryGraphId, <<>>),
     ServerWorkspace(Str("ws1"), "workspace", primaryGraphId,
                     <<[k |-> "created_at", v |-> Str("not a date")]>>),
     ServerWorkspace(Str("ws2"), "workspace", primaryGraphId, <<>>)}

\* The lists of up to MaxListed different entries.
ServerLists ==
    UNION {{f \in [1..n -> ServerWorkspaces] : \A i, j \in 1..n : i # j => f[i] # f[j]} :
              n \in 0..MaxListed}

ListResponses ==
    RequestFailures \cup ErrorBodies
        \cup {Body(Envelope(JsonText(Obj(<<[k |-> "workspaces", v |-> Arr(list)],
                                           [k |-> "primary_graph_id",
                                            v |-> primaryGraphId]>>)))) :
                 list \in ServerLists}
        \cup {Body(Envelope(Str("no workspaces")))}

\* No request was sent, so there is no answer.
NoResponse == [kind |-> "none"]

NoSessionCall ==
    [name |-> "", args |-> Obj(<<>>), outcome |-> "none", ret |-> Null, requests |-> <<>>,
     resp |-> NoResponse]

\* callTool(name, args) for a session tool: totalRequests++, then the
\* handler, whose outcome r is what callTool returns; resp is what the
\* service answered if the handler sent its request.
SessionCall(name, args, resp, r) ==
    /\ metrics.totalRequests < MaxCalls
    /\ activeGraphId' = r.activeGraphId
    /\ workspaces' = r.workspaces
    /\ metrics' = [metrics EXCEPT !.totalRequests = @ + 1,
                                  !.workspaceSwitches = r.workspaceSwitches]
    /\ sessionCall' = [name |-> name, args |-> args, outcome |-> r.outcome,
                       ret |-> r.ret, requests |-> r.requests,
                       resp |-> IF r.requests = <<>> THEN NoResponse ELSE resp]
    /\ UNCHANGED <<now, ticks, toolCall, poolVars, keyVars, cacheVars, retryVars, streamVars>>

CreateWorkspace(args, resp) ==
    SessionCall("create-workspace", args, resp, handleCreateWorkspace(Session, args, resp, now))

SwitchWorkspace(args) ==
    SessionCall("switch-workspace", args, NoResponse, handleSwitchWorkspace(Session, args))

DeleteWorkspace(args, resp) ==
    SessionCall("delete-workspace", args, resp, handleDeleteWorkspace(Session, args, resp))

ListWorkspaces(resp) ==
    SessionCall("list-workspaces", Obj(<<>>), resp, handleListWorkspaces(Session, resp, now))

----------------------------------------------------------------------------
(* RoboSystemsMCPClient.callTool for the tools of the remote service *)

isCacheable(toolName) ==
    toolName \in {"get-graph-schema", "get-graph-info", "describe-graph-structure"}

getCacheTTL(toolName) ==
    CASE toolName = "get-graph-schema" -> 3600
      [] toolName = "get-graph-info" -> 300
      [] toolName = "describe-graph-structure" -> 1800
      [] OTHER -> 300

\* A lookup that never finds anything.
callToolLookup_alwaysMiss(C, name, args, active, t) ==
    [cache |-> C.cache, cacheExpiry |-> C.cacheExpiry, ret |-> Null]

\* The cache lookup of callTool: only for a cacheable tool, under the
\* active graph id.
callToolLookup(C, name, args, active, t) ==
    IF isCacheable(name) THEN cacheGet(C, name, args, active, t)
    ELSE [cache |-> C.cache, cacheExpiry |-> C.cacheExpiry, ret |-> Null]

\* A store that keeps the result of every tool.
callToolStore_everyTool(C, name, args, result, active, t) ==
    cacheSet(C, name, args, result, getCacheTTL(name), active, t)

\* The cache store of _callToolInternal: only for a cacheable tool, under the
\* graph id that is active when the response has been handled.
callToolStore(C, name, args, result, active, t) ==
    IF isCacheable(name)
    THEN cacheSet(C, name, args, result, getCacheTTL(name), active, t)
    ELSE C

NoToolCall == [pc |-> "idle", name |-> "", args |-> Obj(<<>>), ret |-> Null,
               requests |-> <<>>]

\* callTool(name, args) for a remote tool, up to its first suspension:
\* totalRequests++, the cache lookup, and on a miss executeWithRetry, which
\* invokes _callToolInternal, which sends the request to the active graph.
CallTool(name, args) ==
    /\ toolCall.pc # "pending"
    /\ metrics.totalRequests < MaxCalls
    /\ LET r == callToolLookup(Cache, name, args, activeGraphId, now)
       IN  /\ cache' = r.cache
           /\ cacheExpiry' = r.cacheExpiry
           /\ IF r.ret # Null
              THEN /\ metrics' = [metrics EXCEPT !.totalRequests = @ + 1,
                                                 !.cacheHits = @ + 1]
                   /\ toolCall' = [pc |-> "done", name |-> name, args |-> args,
                                   ret |-> r.ret, requests |-> <<>>]
                   /\ retry' = retry
              ELSE /\ metrics' = [metrics EXCEPT !.totalRequests = @ + 1]
                   /\ toolCall' = [pc |-> "pending", name |-> name, args |-> args,
                                   ret |-> Null, requests |-> <<activeGraphId>>]
                   /\ retry' = loopHead(NoRetry)
    /\ UNCHANGED <<now, ticks, stored, cacheCall, invocations, activeGraphId,
                   workspaces, sessionCall, poolVars, keyVars, streamVars>>

\* The request is answered and the response handler gives result:
\* _callToolInternal stores it if the tool is cacheable and resolves, and so
\* does executeWithRetry.
ToolResolves(result) ==
    /\ toolCall.pc = "pending"
    /\ retry.pc = "call"
    /\ LET C == callToolStore(Cache, toolCall.name, toolCall.args, result,
                              activeGraphId, now)
       IN  /\ cache' = C.cache
           /\ cacheExpiry' = C.cacheExpiry
           /\ stored' = IF isCacheable(toolCall.name)
                        THEN MapSet(stored,
                                    generateKey(toolCall.name, toolCall.args, activeGraphId),
                                    [value |-> result,
                                     expiresAt |-> now + getCacheTTL(toolCall.name) * 1000,
                                     graph |-> toolCall.requests[Len(toolCall.requests)]])
                        ELSE stored
    /\ retry' = onResolve(retry, result)
    /\ toolCall' = [toolCall EXCEPT !.pc = "done", !.ret = result]
    /\ UNCHANGED <<now, ticks, cacheCall, invocations, activeGraphId, workspaces,
                   metrics, sessionCall, poolVars, keyVars, streamVars>>

\* The request fails with an Error carrying message: errors++ in the catch
\* block of _callToolInternal, then the catch block of executeWithRetry.
ToolRejects(message) ==
    /\ toolCall.pc = "pending"
    /\ retry.pc = "call"
    /\ metrics' = [metrics EXCEPT !.errors = @ + 1]
    /\ retry' = onReject(retry, message)
    /\ toolCall' = IF retry'.pc = "done"
                   THEN [toolCall EXCEPT !.pc = "done", !.ret = retry'.result]
                   ELSE toolCall
    /\ UNCHANGED <<now, ticks, invocations, activeGraphId, workspaces, sessionCall,
                   poolVars, keyVars, cacheVars, streamVars>>

\* The backoff is over: the next invocation of _callToolInternal sends a
\* request to the graph that is active now.
ToolBackoffElapsed ==
    /\ toolCall.pc = "pending"
    /\ retry.pc = "wait"
    /\ retry' = onBackoffElapsed(retry)
    /\ toolCall' = [toolCall EXCEPT !.requests = Append(@, activeGraphId)]
    /\ UNCHANGED <<now, ticks, invocations, activeGraphId, workspaces, metrics,
                   sessionCall, poolVars, keyVars, cacheVars, streamVars>>

(* The inputs of the remote tools *)

FacadeTools == {"get-graph-schema", "read-graph-cypher"}

ToolResults == {[type |-> "text", text |-> <<"result 1">>],
                [type |-> "text", text |-> <<"result 2">>]}

ToolFailures == {<<"fetch failed">>, HttpMessage(401, "Unauthorized")}

FacadeCreateArgs == Obj(<<[k |-> "name", v |-> Str("scratch")]>>)

FacadeCreateResponses ==
    {HttpError(500, "Internal Server Error"),
     Body(Envelope(JsonText(Obj(<<[k |-> "workspace_id", v |-> Str("ws1")]>>))))}

FacadeSwitchArgs ==
    {Obj(<<[k |-> "workspace_id", v |-> id]>>) : id \in {Str("primary"), Str("ws1")}}

----------------------------------------------------------------------------
(* RoboSystemsMCPClient.aggregateStreamedResults: the events a streamed     *)
(* response was parsed into, { event, data } with data an object, are      *)
(* reduced to one text result.                                             *)

\* events.find((e) => e.event === ... || ...): the first event whose name is
\* one of names, or undefined.
findEvent(evs, names) ==
    IF \E i \in 1..Len(evs) : GetOr(evs[i], "event") \in names
    THEN evs[CHOOSE i \in 1..Len(evs) :
                 /\ GetOr(evs[i], "event") \in names
                 /\ \A j \in 1..(i - 1) : GetOr(evs[j], "event") \notin names]
    ELSE Undefined

\* a || b
OrElse(a, b) == IF Truthy(a) THEN a ELSE b

\* typeof result === 'string' ? result : JSON.stringify(result, null, 2)
resultText(result) ==
    [type |-> "text",
     text |-> IF DOMAIN result = {"str"} THEN <<result.str>>
              ELSE StringifyIndented(result, 0)]

\* A merge in which every chunk that carries a column list replaces the
\* columns.
RECURSIVE mergeChunks_lastColumns(_, _, _, _)
mergeChunks_lastColumns(queryChunks, i, columns, allRows) ==
    IF i > Len(queryChunks) THEN [columns |-> columns, allRows |-> allRows]
    ELSE LET data == GetOr(queryChunks[i], "data")
         IN  mergeChunks_lastColumns(queryChunks, i + 1,
                 IF Truthy(GetOr(data, "columns")) THEN GetOr(data, "columns")
                 ELSE columns,
                 IF Truthy(GetOr(data, "data")) THEN allRows \o GetOr(data, "data").arr
                 ELSE allRows)

\* The for-of loop over the chunks from chunk i on: the first column list is
\* kept, the rows of every chunk are pushed.
RECURSIVE mergeChunks(_, _, _, _)
mergeChunks(queryChunks, i, columns, allRows) ==
    IF i > Len(queryChunks) THEN [columns |-> columns, allRows |-> allRows]
    ELSE LET data == GetOr(queryChunks[i], "data")
         IN  mergeChunks(queryChunks, i + 1,
                 IF ~Truthy(columns) /\ Truthy(GetOr(data, "columns"))
                 THEN GetOr(data, "columns") ELSE columns,
                 IF Truthy(GetOr(data, "data")) THEN allRows \o GetOr(data, "data").arr
                 ELSE allRows)

aggregateStreamedResults(evs) ==
    LET kind(e) == GetOr(e, "event")
        isChunk(e) == kind(e) \in {Str("query_chunk"), Str("data_chunk")}
        errorEvent == findEvent(evs, {Str("error"), Str("operation_error")})
        queryResult == findEvent(evs, {Str("query_result")})
        queryChunks == SelectSeq(evs, isChunk)
        merged == mergeChunks(queryChunks, 1, Null, <<>>)
        resultEvent ==
            findEvent(evs, {Str("operation_completed"), Str("complete"),
                            Str("query_complete"), Str("result"), Str("query_result")})
    IN  IF Truthy(errorEvent)
        THEN [type |-> "text",
              text |-> <<"Error: ",
                         OrElse(GetOr(GetOr(errorEvent, "data"), "error"),
                                OrElse(GetOr(GetOr(errorEvent, "data"), "message"),
                                       Str("Tool execution failed"))).str>>]
        ELSE IF /\ Truthy(queryResult)
                /\ Truthy(GetOr(queryResult, "data"))
                /\ Truthy(GetOr(GetOr(queryResult, "data"), "result"))
        THEN resultText(GetOr(GetOr(queryResult, "data"), "result"))
        ELSE IF /\ Len(queryChunks) > 0
                /\ (Len(merged.allRows) > 0 \/ Truthy(merged.columns))
        THEN [type |-> "text",
              text |-> StringifyIndented(
                           Obj(<<[k |-> "columns", v |-> OrElse(merged.columns, Arr(<<>>))],
                                 [k |-> "data", v |-> Arr(merged.allRows)],
                                 [k |-> "row_count", v |-> Num(Len(merged.allRows))]>>), 0)]
        ELSE IF Truthy(resultEvent)
        THEN resultText(OrElse(GetOr(GetOr(resultEvent, "data"), "result"),
                               GetOr(resultEvent, "data")))
        ELSE [type |-> "text", text |-> StringifyIndented(Arr(evs), 0)]

(* The events of a streamed response *)

StreamEvent(kind, props) ==
    Obj(<<[k |-> "event", v |-> Str(kind)], [k |-> "data", v |-> Obj(props)]>>)

StreamEvents ==
    {StreamEvent("error", <<[k |-> "error", v |-> Str("E1")]>>),
     StreamEvent("operation_error", <<[k |-> "message", v |-> Str("M1")]>>),
     StreamEvent("query_result", <<[k |-> "result", v |-> Str("R1")]>>),
     StreamEvent("query_result", <<>>),
     StreamEvent("query_chunk",
                 <<[k |-> "columns", v |-> Arr(<<Str("c1"), Str("c2")>>)],
                   [k |-> "data", v |-> Arr(<<Arr(<<Num(1), Num(2)>>)>>)]>>),
     StreamEvent("data_chunk",
                 <<[k |-> "data", v |-> Arr(<<Arr(<<Num(3), Num(4)>>)>>)]>>),
     StreamEvent("data_chunk", <<[k |-> "columns", v |-> Arr(<<Str("c3")>>)]>>),
     StreamEvent("query_chunk", <<>>),
     StreamEvent("operation_completed",
                 <<[k |-> "result",
                    v |-> Obj(<<[k |-> "success", v |-> Bool(TRUE)]>>)]>>),
     StreamEvent("complete", <<[k |-> "status", v |-> Str("done")]>>),
     StreamEvent("progress", <<[k |-> "value", v |-> Num(1)]>>)}

\* events.push(event): a parsed event joins the collected sequence.
PushEvent(e) ==
    /\ aggregated = Null
    /\ Len(events) < MaxEvents
    /\ events' = Append(events, e)
    /\ UNCHANGED <<aggregated, ndjson, sse, queued, now, ticks, poolVars,
                   keyVars, cacheVars, retryVars, clientVars>>

\* The stream has ended and the events collected are aggregated.
Aggregate ==
    /\ aggregated = Null
    /\ aggregated' = aggregateStreamedResults(events)
    /\ UNCHANGED <<events, ndjson, sse, queued, now, ticks, poolVars,
                   keyVars, cacheVars, retryVars, clientVars>>

----------------------------------------------------------------------------
(* RoboSystemsMCPClient.handleNDJSONResponse.  The body is a text over a    *)
(* few characters; a line is well-formed JSON if, trimmed, it is a decimal  *)
(* number, so that joining or cutting a line changes what it parses to.    *)

\* String.prototype.split('\n') from character i on, cur being the piece
\* that is being read.
RECURSIVE Split(_, _, _)
Split(s, i, cur) ==
    IF i > Len(s) THEN <<cur>>
    ELSE IF s[i] = "\n" THEN <<cur>> \o Split(s, i + 1, <<>>)
    ELSE Split(s, i + 1, Append(cur, s[i]))

\* String.prototype.trim()
RECURSIVE Trim(_)
Trim(s) ==
    IF s = <<>> THEN s
    ELSE IF s[1] = " " THEN Trim(Tail(s))
    ELSE IF s[Len(s)] = " " THEN Trim(SubSeq(s, 1, Len(s) - 1))
    ELSE s

\* The number that a sequence of decimal digits denotes.
RECURSIVE DecimalValue(_, _)
DecimalValue(s, acc) ==
    IF s = <<>> THEN acc
    ELSE DecimalValue(Tail(s), 10 * acc + (IF s[1] = "1" THEN 1 ELSE 2))

\* JSON.parse(line): white space around the value is allowed; anything but a
\* number throws a SyntaxError, written as undefined.
JsonParse(line) ==
    LET t == Trim(line)
    IN  IF t # <<>> /\ \A i \in 1..Len(t) : t[i] \in {"1", "2"}
        THEN Num(DecimalValue(t, 0))
        ELSE Undefined

\* for (const line of lines): a line that is not blank is parsed and pushed,
\* a line that fails to parse is logged and skipped.
RECURSIVE pushLines(_, _, _)
pushLines(evs, lines, i) ==
    IF i > Len(lines) THEN evs
    ELSE IF Trim(lines[i]) # <<>> /\ JsonParse(lines[i]) # Undefined
         THEN pushLines(Append(evs, JsonParse(lines[i])), lines, i + 1)
         ELSE pushLines(evs, lines, i + 1)

\* A read that parses the piece after the last line break at once.
ndjsonRead_noBuffer(N, evs, chunk) ==
    [body |-> N.body \o chunk, buffer |-> <<>>,
     events |-> pushLines(evs, Split(chunk, 1, <<>>), 1)]

\* One turn of the read loop for a chunk: buffer += decode(value), the lines
\* but the last are parsed, the last piece stays in the buffer.
ndjsonRead(N, evs, chunk) ==
    LET lines == Split(N.buffer \o chunk, 1, <<>>)
    IN  [body |-> N.body \o chunk,
         buffer |-> lines[Len(lines)],
         events |-> pushLines(evs, SubSeq(lines, 1, Len(lines) - 1), 1)]

\* The characters of a body.
NdjsonChars == {"1", "2", "\n", " ", "x"}

\* The chunks a read may give: up to n characters.
Chunks(n) == UNION {[1..k -> NdjsonChars] : k \in 1..n}

\* Nothing read yet; chunks records the length of every chunk read.
NoNdjson == [body |-> <<>>, chunks |-> <<>>, buffer |-> <<>>, done |-> FALSE]

\* reader.read() gives a chunk.
ReadChunk(chunk) ==
    /\ ~ndjson.done
    /\ aggregated = Null
    /\ Len(ndjson.body) + Len(chunk) <= MaxBody
    /\ LET r == ndjsonRead(ndjson, events, chunk)
       IN  /\ ndjson' = [body |-> r.body, chunks |-> Append(ndjson.chunks, Len(chunk)),
                         buffer |-> r.buffer, done |-> FALSE]
           /\ events' = r.events
    /\ UNCHANGED <<aggregated, sse, queued, now, ticks, poolVars, keyVars, cacheVars,
                   retryVars, clientVars>>

\* reader.read() gives done: what is left in the buffer is parsed as the
\* last line, and the events are aggregated.
ReadDone ==
    /\ ~ndjson.done
    /\ aggregated = Null
    /\ LET evs == pushLines(events, <<ndjson.buffer>>, 1)
       IN  /\ events' = evs
           /\ aggregated' = aggregateStreamedResults(evs)
    /\ ndjson' = [ndjson EXCEPT !.done = TRUE]
    /\ UNCHANGED <<sse, queued, now, ticks, poolVars, keyVars, cacheVars, retryVars,
                   clientVars>>

----------------------------------------------------------------------------
(* RoboSystemsMCPClient.handleQueuedResponse.  One turn of the polling loop *)
(* is one step: between the wait, the status request and the result        *)
(* request the handler touches no state but its own.  The delay is kept in *)
(* microseconds, so that the factor 1.5 stays in the integers.             *)

maxAttempts == 30
initialDelay == 1000000   \* 1000 ms
maxDelay == 10000000      \* 10000 ms

NoQueued == [pc |-> "idle", attempts |-> 0, delay |-> 0, polls |-> 0,
             result |-> Null, last |-> Null]

\* A loop test that admits one turn more.
whileHead_oneMore(Q) ==
    IF Q.attempts <= maxAttempts THEN [Q EXCEPT !.pc = "wait"]
    ELSE [Q EXCEPT !.pc = "done",
                   !.result = [type |-> "text",
                               text |-> <<"Query timed out waiting for result">>]]

\* while (attempts < maxAttempts): the next wait, or the text after the loop.
whileHead(Q) ==
    IF Q.attempts < maxAttempts THEN [Q EXCEPT !.pc = "wait"]
    ELSE [Q EXCEPT !.pc = "done",
                   !.result = [type |-> "text",
                               text |-> <<"Query timed out waiting for result">>]]

\* attempts++; delay = Math.min(delay * 1.5, 10000); and the loop test.
nextAttempt(Q) ==
    whileHead([Q EXCEPT !.attempts = @ + 1,
                        !.delay = IF (@ * 3) \div 2 < maxDelay
                                  THEN (@ * 3) \div 2 ELSE maxDelay])

returnText(Q, text) == [Q EXCEPT !.pc = "done", !.result = [type |-> "text", text |-> text]]

\* The body of the loop after the wait, for the outcome o of the status
\* request and, on 'completed', of the result request: a request that throws,
\* a response that is not ok or a body that is not JSON ends the turn.
pollOnce(Q, o) ==
    LET P == [Q EXCEPT !.polls = @ + 1, !.last = o]
    IN  IF o.fetch # "ok" THEN nextAttempt(P)
        ELSE IF GetOr(o.status, "status") = Str("completed")
             THEN IF o.resultFetch = "ok"
                  THEN returnText(P, StringifyIndented(o.result, 0))
                  ELSE nextAttempt(P)
        ELSE IF GetOr(o.status, "status") = Str("failed")
             THEN returnText(P, <<"Query failed: ",
                                  OrElse(GetOr(o.status, "error"),
                                         Str("Unknown error")).str>>)
        ELSE IF GetOr(o.status, "status") = Str("cancelled")
             THEN returnText(P, <<"Query was cancelled">>)
        ELSE nextAttempt(P)

\* handleQueuedResponse(response) up to the first wait, data being the body
\* of the 202 response.
queuedStart(data) ==
    IF Truthy(GetOr(data, "queued")) /\ Truthy(GetOr(data, "queue_id"))
    THEN whileHead([NoQueued EXCEPT !.delay = initialDelay])
    ELSE returnText(NoQueued, StringifyIndented(data, 0))

(* The inputs of the queued handler *)

QueuedBodies ==
    {Obj(<<[k |-> "queued", v |-> Bool(TRUE)], [k |-> "queue_id", v |-> Str("q1")]>>),
     Obj(<<[k |-> "queued", v |-> Bool(TRUE)]>>),
     Obj(<<[k |-> "status", v |-> Str("accepted")]>>)}

StatusOf(status, props) == Obj(<<[k |-> "status", v |-> Str(status)]>> \o props)

\* What one turn of the loop meets: the status request throws, is answered
\* not ok or with a body that is not JSON, or is answered with a status;
\* and for 'completed' the same for the result request.
PollOutcomes ==
    {[fetch |-> f, status |-> Null, resultFetch |-> "none", result |-> Null] :
        f \in {"throws", "notOk", "badJson"}}
      \cup {[fetch |-> "ok", status |-> s, resultFetch |-> "none", result |-> Null] :
               s \in {StatusOf("pending", <<>>), StatusOf("running", <<>>),
                      StatusOf("failed", <<[k |-> "error", v |-> Str("E1")]>>),
                      StatusOf("failed", <<>>), StatusOf("cancelled", <<>>)}}
      \cup {[fetch |-> "ok", status |-> StatusOf("completed", <<>>), resultFetch |-> f,
             result |-> Null] : f \in {"throws", "notOk", "badJson"}}
      \cup {[fetch |-> "ok", status |-> StatusOf("completed", <<>>), resultFetch |-> "ok",
             result |-> r] :
               r \in {Obj(<<[k |-> "rows", v |-> Num(1)]>>), Arr(<<>>)}}

\* handleQueuedResponse is called with a 202 response whose body is data.
QueuedStart(data) ==
    /\ queued.pc = "idle"
    /\ queued' = queuedStart(data)
    /\ UNCHANGED <<events, aggregated, ndjson, sse, now, ticks, poolVars,
                   keyVars, cacheVars, retryVars, clientVars>>

\* The wait is over and the status is polled.
QueuedPoll(o) ==
    /\ queued.pc = "wait"
    /\ queued' = pollOnce(queued, o)
    /\ UNCHANGED <<events, aggregated, ndjson, sse, now, ticks, poolVars,
                   keyVars, cacheVars, retryVars, clientVars>>

\* Some turn of the polling loop.
QueuedTurn == \E o \in PollOutcomes : QueuedPoll(o)

----------------------------------------------------------------------------
(* RoboSystemsMCPClient.handleSSEResponse.  A call takes its EventSource    *)
(* from the pool and attaches its listeners; the listeners stay attached   *)
(* after the promise has settled, and every call that took the same        *)
(* EventSource hears its events.  S is the pool and the calls together.    *)

sseTimeoutMs == 300000

\* event.data that JSON.parse rejects.
Malformed == Undefined

\* clearTimeout(timeout)
clearSseTimeout(call) == [call EXCEPT !.timeout = 0]

\* resolve(value) or reject(error) in the listener or callback named by:
\* only the first of them settles the promise.
settle(call, pc, outcome, by) ==
    IF call.pc = "waiting"
    THEN [call EXCEPT !.pc = pc, !.outcome = outcome, !.by = by]
    ELSE call

\* events.push({ event: kind, data }) if event.data parses.
pushParsed(S, c, kind, data) ==
    IF data = Malformed THEN S
    ELSE [S EXCEPT !.calls[c].events =
             Append(@, Obj(<<[k |-> "event", v |-> Str(kind)], [k |-> "data", v |-> data]>>))]

\* The listener for 'complete'.
onComplete(S, c) ==
    [S EXCEPT !.calls[c] = settle(clearSseTimeout(@), "resolved",
                                  aggregateStreamedResults(@.events), "complete")]

\* The listener for 'operation_completed'.
onOperationCompleted(S, c) ==
    [pool  |-> closeConnection(S.pool, S.calls[c].id),
     calls |-> [S.calls EXCEPT ![c] = settle(clearSseTimeout(@), "resolved",
                                             aggregateStreamedResults(@.events),
                                             "operation_completed")]]

\* The listener for 'operation_error'.
onOperationError(S, c, data) ==
    [pool  |-> closeConnection(S.pool, S.calls[c].id),
     calls |-> [S.calls EXCEPT ![c] =
                  settle(clearSseTimeout(@), "rejected",
                         [message |->
                            IF data = Malformed THEN <<"Operation failed">>
                            ELSE <<OrElse(GetOr(data, "error"),
                                          OrElse(GetOr(data, "message"),
                                                 Str("Operation failed"))).str>>],
                         "operation_error")]]

\* An 'error' listener that fails the call whatever was collected.
onError_alwaysRejects(S, c) ==
    [pool  |-> closeConnection(S.pool, S.calls[c].id),
     calls |-> [S.calls EXCEPT ![c] =
                  settle(clearSseTimeout(@), "rejected",
                         [message |-> <<"SSE connection failed">>], "error")]]

\* The listener for 'error'.
onError(S, c) ==
    [pool  |-> closeConnection(S.pool, S.calls[c].id),
     calls |-> [S.calls EXCEPT ![c] =
                  IF Len(@.events) > 0
                  THEN settle(clearSseTimeout(@), "resolved",
                              aggregateStreamedResults(@.events), "error")
                  ELSE settle(clearSseTimeout(@), "rejected",
                              [message |-> <<"SSE connection failed">>], "error")]]

\* A timeout callback that closes the connection and leaves the promise
\* pending.
onSseTimeout_noReject(S, c) ==
    [pool  |-> closeConnection(S.pool, S.calls[c].id),
     calls |-> [S.calls EXCEPT ![c].timeout = 0]]

\* The callback of the 5-minute timeout.
onSseTimeout(S, c) ==
    [pool  |-> closeConnection(S.pool, S.calls[c].id),
     calls |-> [S.calls EXCEPT ![c] =
                  settle([@ EXCEPT !.timeout = 0], "rejected",
                         [message |-> <<"SSE timeout after 5 minutes">>], "timeout")]]

\* What the listeners of call c do with an event of the given kind; onmessage
\* is a property of the EventSource, so only the call that set it last (the
\* owner) hears the events without a name.
listen(S, c, owner, kind, data) ==
    CASE kind = "message" -> IF c = owner THEN pushParsed(S, c, "message", data) ELSE S
      [] kind = "query_chunk" -> pushParsed(S, c, "query_chunk", data)
      [] kind = "complete" -> onComplete(S, c)
      [] kind = "operation_completed" -> onOperationCompleted(S, c)
      [] kind = "operation_error" -> onOperationError(S, c, data)
      [] kind = "error" -> onError(S, c)
      [] OTHER -> S

\* The calls that took the EventSource h, in the order they attached.
Listeners(calls, h) == SelectSeq([c \in 1..Len(calls) |-> c], LAMBDA c : calls[c].eventSource = h)

\* The EventSource dispatches one event to the listeners in turn.
RECURSIVE dispatch(_, _, _, _, _)
dispatch(S, listeners, i, kind, data) ==
    IF i > Len(listeners) THEN S
    ELSE dispatch(listen(S, listeners[i], listeners[Len(listeners)], kind, data),
                  listeners, i + 1, kind, data)

\* The pool and the calls become S.
SetSse(S) ==
    /\ connections' = S.pool.connections
    /\ timers' = S.pool.timers
    /\ closeCount' = S.pool.closeCount
    /\ sse' = S.calls

\* handleSSEResponse(response, toolName) for a response whose operation id
\* is operationId: getConnection, the timeout, the listeners.
SseStart(operationId) ==
    /\ Len(sse) < SseMaxCalls
    /\ LET h == getConnectionReturn(Pool, operationId, created + 1)
       IN  SetSse([pool  |-> getConnectionPool(Pool, operationId, now, created + 1),
                   calls |-> Append(sse, [id |-> operationId, eventSource |-> h,
                                          events |-> <<>>, timeout |-> now + sseTimeoutMs,
                                          startedAt |-> now, pc |-> "waiting",
                                          outcome |-> Null, by |-> ""])])
    /\ created' = IF Has(connections, operationId) THEN created ELSE created + 1
    /\ UNCHANGED <<events, aggregated, ndjson, queued, now, ticks, poolCall, keyVars,
                   cacheVars, retryVars, clientVars>>

\* The open EventSource h receives an event.
SseDeliver(h, kind, data) ==
    /\ Len(Listeners(sse, h)) > 0
    /\ closeCount[h] = 0
    /\ kind \in {"message", "query_chunk"}
          => \A c \in 1..Len(sse) : Len(sse[c].events) < SseMaxEvents
    /\ SetSse(dispatch([pool |-> Pool, calls |-> sse], Listeners(sse, h), 1, kind, data))
    /\ UNCHANGED <<events, aggregated, ndjson, queued, now, ticks, created, poolCall,
                   keyVars, cacheVars, retryVars, clientVars>>

\* The 5-minute timeout of call c fires.
SseTimeout(c) ==
    /\ sse[c].timeout # 0
    /\ now >= sse[c].timeout
    /\ SetSse(onSseTimeout([pool |-> Pool, calls |-> sse], c))
    /\ UNCHANGED <<events, aggregated, ndjson, queued, now, ticks, created, poolCall,
                   keyVars, cacheVars, retryVars, clientVars>>

SseTimeoutDue == \E c \in 1..Len(sse) : SseTimeout(c)

\* The due times of the pending timers: the cleanups of the pool and the
\* timeouts of the calls.
Deadlines ==
    {t.fireAt : t \in timers}
        \cup {sse[c].timeout : c \in {d \in 1..Len(sse) : sse[d].timeout # 0}}

\* The clock advances to the due time of the timer that is due first.
SseToDeadline ==
    /\ Deadlines # {}
    /\ \A d \in Deadlines : now < d
    /\ now' = CHOOSE d \in Deadlines : \A e \in Deadlines : d <= e
    /\ UNCHANGED <<ticks, poolVars, keyVars, cacheVars, retryVars, clientVars, streamVars>>

(* The inputs of the SSE handler *)

SseKinds == {"message", "query_chunk", "complete", "operation_completed",
             "operation_error", "error", "progress"}

SseData ==
    {Malformed,
     Obj(<<[k |-> "error", v |-> Str("E1")],
           [k |-> "data", v |-> Arr(<<Arr(<<Num(1)>>)>>)]>>)}

----------------------------------------------------------------------------
Init ==
    /\ now = 0
    /\ ticks = 0
    /\ connections = <<>>
    /\ timers = {}
    /\ closeCount = [h \in 1..(MaxCreated + 1) |-> 0]
    /\ created = 0
    /\ poolCall = [op |-> "new", id |-> NoId, ret |-> NoHandle, closed |-> {}]
    /\ keyCall = NoKeyCall
    /\ keyPrev = NoKeyCall
    /\ cache = EmptyMap
    /\ cacheExpiry = EmptyMap
    /\ stored = EmptyMap
    /\ cacheCall = [op |-> "new", tool |-> "", args |-> Obj(<<>>),
                    workspace |-> Null, ret |-> Null]
    /\ retry = NoRetry
    /\ invocations = <<>>
    /\ activeGraphId = primaryGraphId
    /\ workspaces = <<primaryEntry(0)>>
    /\ metrics = [totalRequests |-> 0, cacheHits |-> 0, errors |-> 0,
                  workspaceSwitches |-> 0]
    /\ sessionCall = NoSessionCall
    /\ toolCall = NoToolCall
    /\ events = <<>>
    /\ aggregated = Null
    /\ ndjson = NoNdjson
    /\ sse = <<>>
    /\ queued = NoQueued

PoolNext ==
    \/ \E id \in OperationIds : GetConnection(id)
    \/ \E id \in OperationIds : CloseConnection(id)
    \/ CloseAll
    \/ \E t \in timers : Expire(t)
    \/ \E d \in {1, connectionTTL} : Tick(d, PoolMaxTicks)

PoolSpec == Init /\ [][PoolNext]_vars

KeyNext ==
    \E tool \in ToolNames, args \in ArgsUniverse, ws \in WorkspaceIds :
        GenerateKey(tool, args, ws)

KeySpec == Init /\ [][KeyNext]_vars

CacheNext ==
    \/ \E tool \in CacheTools, args \in CacheArgs, ws \in CacheWorkspaces :
          CacheGet(tool, args, ws)
    \/ \E tool \in CacheTools, args \in CacheArgs, ws \in CacheWorkspaces,
          result \in CacheResults, ttl \in TtlSeconds :
          CacheSet(tool, args, result, ttl, ws)
    \/ CacheClear
    \/ \E d \in {1, 1000} : Tick(d, CacheMaxTicks)

CacheSpec == Init /\ [][CacheNext]_vars

RetryNext ==
    \/ ExecuteWithRetry
    \/ \E value \in SuccessValues : FnResolves(value)
    \/ \E message \in FailureMessages \cup {NoMessage} : FnRejects(message)
    \/ BackoffElapsed

RetrySpec == Init /\ [][RetryNext]_vars

SessionNext ==
    \/ \E args \in CreateArgs, resp \in CreateResponses : CreateWorkspace(args, resp)
    \/ \E args \in SwitchArgs : SwitchWorkspace(args)
    \/ \E args \in DeleteArgs, resp \in DeleteResponses : DeleteWorkspace(args, resp)
    \/ \E resp \in ListResponses : ListWorkspaces(resp)

SessionSpec == Init /\ [][SessionNext]_vars

\* What the response handlers give _callToolInternal: the results of the
\* service, and the text that handleNDJSONResponse aggregates from a stream
\* whose only event is an error event.
HandlerResults ==
    ToolResults
        \cup {aggregateStreamedResults(
                  <<StreamEvent("error", <<[k |-> "error", v |-> Str("E1")]>>)>>)}

FacadeNext ==
    \/ \E name \in FacadeTools, args \in CacheArgs : CallTool(name, args)
    \/ \E result \in ToolResults : ToolResolves(result)
    \/ \E message \in ToolFailures : ToolRejects(message)
    \/ ToolBackoffElapsed
    \/ \E resp \in FacadeCreateResponses : CreateWorkspace(FacadeCreateArgs, resp)
    \/ \E args \in FacadeSwitchArgs : SwitchWorkspace(args)
    \/ \E d \in {1, getCacheTTL("get-graph-schema") * 1000} : Tick(d, FacadeMaxTicks)

FacadeSpec == Init /\ [][FacadeNext]_vars

\* The calls of a cacheable tool, answered by any of the response handlers,
\* interleaved with the four session tools.
ContextNext ==
    \/ \E args \in CacheArgs : CallTool("get-graph-schema", args)
    \/ \E result \in HandlerResults : ToolResolves(result)
    \/ \E message \in ToolFailures : ToolRejects(message)
    \/ ToolBackoffElapsed
    \/ \E resp \in FacadeCreateResponses : CreateWorkspace(FacadeCreateArgs, resp)
    \/ \E args \in FacadeSwitchArgs : SwitchWorkspace(args)
    \/ \E resp \in DeleteResponses :
          DeleteWorkspace(Obj(<<[k |-> "workspace_id", v |-> Str("ws1")]>>), resp)
    \/ \E resp \in RequestFailures
                     \cup {Body(Envelope(JsonText(
                               Obj(<<[k |-> "workspaces", v |-> Arr(<<>>)],
                                     [k |-> "primary_graph_id", v |-> primaryGraphId]>>))))} :
          ListWorkspaces(resp)

ContextSpec == Init /\ [][ContextNext]_vars

StreamNext ==
    \/ \E e \in StreamEvents : PushEvent(e)
    \/ Aggregate

StreamSpec == Init /\ [][StreamNext]_vars

\* The pool with its timers: two operation ids, and a clock that runs the
\* callback of a timer when the timer is due.
TtlNext ==
    \/ \E id \in 1..2 : created < TtlMaxCreated /\ GetConnection(id)
    \/ \E id \in 1..2 : Has(connections, id) /\ GetConnection(id)
    \/ \E id \in 1..2 : CloseConnection(id)
    \/ ExpireDue
    \/ Elapse(1, TtlMaxTicks)
    \/ ToDeadline

\* The event loop runs the callback of a due timer, and time passes.
TtlSpec ==
    Init /\ [][TtlNext]_vars /\ WF_vars(ExpireDue) /\ WF_vars(ToDeadline)

NdjsonNext ==
    \/ \E chunk \in Chunks(MaxBody - Len(ndjson.body)) : ReadChunk(chunk)
    \/ ReadDone

NdjsonSpec == Init /\ [][NdjsonNext]_vars

QueuedNext ==
    \/ \E data \in QueuedBodies : QueuedStart(data)
    \/ QueuedTurn

\* Every wait of the polling loop ends and every request settles.
QueuedSpec == Init /\ [][QueuedNext]_vars /\ WF_vars(QueuedTurn)

SseNext ==
    \/ \E id \in 1..(Len(sse) + 1) : SseStart(id)
    \/ \E h \in 1..SseMaxCalls, kind \in SseKinds, data \in SseData :
          SseDeliver(h, kind, data)
    \/ SseTimeoutDue
    \/ ExpireDue
    \/ SseToDeadline

\* The event loop runs the callback of a due timer, and time passes.
SseSpec ==
    Init /\ [][SseNext]_vars
         /\ WF_vars(SseTimeoutDue) /\ WF_vars(ExpireDue) /\ WF_vars(SseToDeadline)

Next ==
    \/ PoolNext \/ KeyNext \/ CacheNext \/ RetryNext \/ SessionNext \/ FacadeNext
    \/ StreamNext \/ TtlNext \/ ContextNext \/ NdjsonNext
    \/ QueuedNext \/ SseNext

Spec == Init /\ [][Next]_vars

----------------------------------------------------------------------------
(* Properties of SSEConnectionPool *)

\* C1: in every reachable state of the pool, connections.size is at most
\* maxConnections.
C1_SizeNeverExceedsMax == Len(connections) <= maxConnections

\* The entry with the smallest lastUsed, the first in scan order on a tie.
OldestIndex(conns) ==
    CHOOSE i \in 1..Len(conns) :
        \A j \in 1..Len(conns) :
            \/ conns[i].lastUsed < conns[j].lastUsed
            \/ conns[i].lastUsed = conns[j].lastUsed /\ i <= j

\* C2: a getConnection for a new id on a full pool closes and removes exactly
\* one entry, the one with the smallest lastUsed (first in scan order on a
\* tie), and the size stays at maxConnections.
C2_FullPoolEvictsOldest ==
    [][\A id \in OperationIds :
        (Len(connections) = maxConnections /\ ~Has(connections, id) /\ GetConnection(id))
        => LET victim == connections[OldestIndex(connections)]
           IN  /\ poolCall'.closed = {victim.eventSource}
               /\ Ids(connections') = (Ids(connections) \ {victim.id}) \cup {id}
               /\ Len(connections') = maxConnections]_vars

\* C3: a getConnection for an id that is in the pool returns that entry's
\* EventSource, constructs none, keeps the entries and their order, and
\* changes nothing but that entry's lastUsed.
C3_ReuseIsIdempotent ==
    [][\A id \in OperationIds :
        (Has(connections, id) /\ GetConnection(id))
        => LET i == IndexOf(connections, id)
           IN  /\ poolCall'.ret = connections[i].eventSource
               /\ created' = created
               /\ connections' = [connections EXCEPT ![i].lastUsed = now]
               /\ timers' = timers
               /\ closeCount' = closeCount]_vars

\* A second getConnection for an id came back, later than the first, with the
\* EventSource of the entry.
C3_Witness ==
    /\ poolCall.op = "getConnection"
    /\ \E i \in 1..Len(connections) :
          /\ connections[i].id = poolCall.id
          /\ connections[i].eventSource = poolCall.ret
          /\ connections[i].lastUsed > connections[i].createdAt
          /\ Len(connections) > 1

\* C4: close() is called at most once on every EventSource the pool created,
\* and closeConnection for an id that is not in the pool changes nothing and
\* closes nothing.
C4_ClosedAtMostOnce ==
    [][/\ \A h \in DOMAIN closeCount : closeCount'[h] <= 1
       /\ \A id \in OperationIds :
            (~Has(connections, id) /\ CloseConnection(id))
            => UNCHANGED <<connections, timers, closeCount, created>>]_vars

\* A closeConnection closed nothing (its id was not in the pool) after some
\* EventSource had been closed, while other entries are still in the pool.
C4_Witness ==
    /\ poolCall.op = "closeConnection"
    /\ poolCall.closed = {}
    /\ \E h \in DOMAIN closeCount : closeCount[h] = 1
    /\ Len(connections) > 0

----------------------------------------------------------------------------
(* Properties of ResultCache.generateKey *)

\* Structural equality of two values up to the order of the keys of every
\* object in them.
RECURSIVE SameContent(_, _)
SameContent(x, y) ==
    IF IsObj(x) /\ IsObj(y)
    THEN /\ KeySet(x) = KeySet(y)
         /\ \A k \in KeySet(x) : SameContent(GetProp(x, k), GetProp(y, k))
    ELSE IF IsArr(x) /\ IsArr(y)
    THEN /\ Len(x.arr) = Len(y.arr)
         /\ \A i \in 1..Len(x.arr) : SameContent(x.arr[i], y.arr[i])
    ELSE DOMAIN x = DOMAIN y /\ x = y

BothKeyCalls == keyPrev # NoKeyCall /\ keyCall # NoKeyCall

SameKeyInputs ==
    /\ keyPrev.tool = keyCall.tool
    /\ keyPrev.workspace = keyCall.workspace
    /\ SameContent(keyPrev.args, keyCall.args)

\* C5: two generateKey calls with the same tool and context id whose argument
\* mappings are equal up to the order of keys at any depth give the same key.
C5_KeyIgnoresKeyOrder ==
    (BothKeyCalls /\ SameKeyInputs) => keyPrev.key = keyCall.key

\* Two calls whose arguments differ only in the order of the keys of an
\* object nested inside an array got keys.
C5_Witness ==
    /\ BothKeyCalls /\ SameKeyInputs
    /\ \E o1, o2 \in ObjsOver(BothOrders, Atoms) :
          /\ o1 # o2
          /\ keyPrev.args = Obj(<<[k |-> "a", v |-> Arr(<<o1>>)]>>)
          /\ keyCall.args = Obj(<<[k |-> "a", v |-> Arr(<<o2>>)]>>)

\* C6: two generateKey calls that differ in the tool, in the context id or in
\* the content of the arguments hash different canonical data.
C6_KeySeparatesInputs ==
    (BothKeyCalls /\ ~SameKeyInputs) => keyPrev.data # keyCall.data

----------------------------------------------------------------------------
(* Properties of ResultCache.get / set *)

\* C7: a get before the expiry of the entry last set under its key returns the
\* value set; a get after that expiry returns null and leaves the key in
\* neither map; a get for a key never set returns null.
C7_GetHonoursExpiry ==
    [][\A tool \in CacheTools, args \in CacheArgs, ws \in CacheWorkspaces :
        CacheGet(tool, args, ws)
        => LET key == generateKey(tool, args, ws)
           IN  /\ (key \in DOMAIN stored /\ now < stored[key].expiresAt)
                     => cacheCall'.ret = stored[key].value
               /\ (key \in DOMAIN stored /\ now > stored[key].expiresAt)
                     => /\ cacheCall'.ret = Null
                        /\ key \notin DOMAIN cache'
                        /\ key \notin DOMAIN cacheExpiry'
               /\ key \notin DOMAIN stored => cacheCall'.ret = Null]_vars

\* A get after the expiry of a stored entry returned null and the entry is
\* gone, while another entry is still live.
C7_Witness ==
    /\ cacheCall.op = "get"
    /\ cacheCall.ret = Null
    /\ LET key == generateKey(cacheCall.tool, cacheCall.args, cacheCall.workspace)
       IN  /\ key \in DOMAIN stored
           /\ now > stored[key].expiresAt
           /\ key \notin DOMAIN cache
    /\ \E k \in DOMAIN cache : cacheExpiry[k] > now

----------------------------------------------------------------------------
(* Properties of executeWithRetry *)

\* The message signals one of the statuses 400, 401, 403.
SignalsClientError(message) ==
    \E status \in {400, 401, 403} : Includes(message, Digits(status))

\* The failure is one the executor is to retry: it carries a message, and the
\* message signals none of 400, 401, 403.
RetryableFailure(o) ==
    ~o.ok /\ o.message # NoMessage /\ ~SignalsClientError(o.message)

AllRetryable(n) == \A i \in 1..n : RetryableFailure(invocations[i])

Settled == retry.pc \in {"done", "threw"}

\* C8: a success is the last invocation and its value is what the executor
\* returns; and the executor does not give up before maxRetries invocations
\* while every failure so far was retryable, so an operation that first
\* succeeds on its k-th invocation (k <= 3) is invoked exactly k times.
C8_ReturnsFirstSuccess ==
    /\ \A i \in 1..Len(invocations) :
          invocations[i].ok
          => /\ i = Len(invocations)
             /\ retry.pc = "done"
             /\ retry.result = invocations[i].value
    /\ (Settled /\ AllRetryable(Len(invocations)))
          => Len(invocations) = maxRetries

\* fail, fail, succeed: three invocations, and the value of the third returned.
C8_Witness ==
    /\ Len(invocations) = 3
    /\ AllRetryable(2)
    /\ invocations[3].ok
    /\ retry.pc = "done"
    /\ retry.result = invocations[3].value

\* C9: a failure whose message signals 401, 403 or 400 is the last invocation,
\* no backoff wait follows it, and the executor has returned a text result
\* that contains the message.
C9_ClientErrorNotRetried ==
    \A i \in 1..Len(invocations) :
        (~invocations[i].ok /\ invocations[i].message # NoMessage
           /\ SignalsClientError(invocations[i].message))
        => /\ i = Len(invocations)
           /\ Len(retry.waits) = i - 1
           /\ retry.pc = "done"
           /\ retry.result.type = "text"
           /\ Includes(retry.result.text, invocations[i].message)

\* A retryable failure, one backoff, then a 403: two invocations and the
\* error text returned.
C9_Witness ==
    /\ Len(invocations) = 2
    /\ RetryableFailure(invocations[1])
    /\ ~invocations[2].ok
    /\ invocations[2].message = HttpMessage(403, "Forbidden")
    /\ retry.pc = "done"
    /\ Len(retry.waits) = 1

\* C10: fn is invoked at most maxRetries times; after maxRetries retryable
\* failures the executor has returned the text 'Error after 3 attempts: '
\* followed by the message of the last failure.
C10_GivesUpAfterMaxRetries ==
    /\ Len(invocations) <= maxRetries
    /\ (Len(invocations) = maxRetries /\ AllRetryable(maxRetries))
          => /\ retry.pc = "done"
             /\ retry.result =
                  [type |-> "text",
                   text |-> <<"Error after ", "3", " attempts: ">>
                            \o invocations[maxRetries].message]

\* Three retryable failures with different messages, and the executor returned.
C10_Witness ==
    /\ Len(invocations) = maxRetries
    /\ AllRetryable(maxRetries)
    /\ invocations[2].message # invocations[3].message
    /\ retry.pc = "done"
    /\ Len(retry.waits) = 2

----------------------------------------------------------------------------
(* Properties of the pool's expiry timers *)

\* C27: the cleanup of an entry is due 30 s after the entry was created, and
\* the entry does not stay in the pool beyond that time; an entry that stays
\* in the pool keeps its creation time and its timer, and a step that
\* refreshes the lastUsed of an entry (a getConnection for its id) changes
\* nothing else: neither the timers nor the clock nor any EventSource; and
\* every EventSource ever created is eventually closed.
C27_TtlFromCreation ==
    /\ [](\A i \in 1..Len(connections) :
            /\ now <= connections[i].createdAt + 30000
            /\ [timer |-> connections[i].cleanupTimer, operationId |-> connections[i].id,
                fireAt |-> connections[i].createdAt + 30000] \in timers)
    /\ [][\A i \in 1..Len(connections) : \A j \in 1..Len(connections') :
            connections'[j].eventSource = connections[i].eventSource
            => /\ connections'[j].createdAt = connections[i].createdAt
               /\ connections'[j].lastUsed # connections[i].lastUsed
                    => /\ connections' = [connections EXCEPT ![i].lastUsed = now]
                       /\ poolCall'.op = "getConnection"
                       /\ poolCall'.id = connections[i].id
                       /\ poolCall'.ret = connections[i].eventSource
                       /\ timers' = timers
                       /\ closeCount' = closeCount
                       /\ now' = now]_vars
    /\ \A h \in 1..TtlMaxCreated : (created >= h) ~> (closeCount[h] > 0)

\* An entry created at 0 and reused at 1 is in the pool at 30000, when its
\* cleanup is due, and has not been closed before.
C27_Witness ==
    /\ now = 30000
    /\ Len(connections) = 1
    /\ connections[1].createdAt = 0
    /\ connections[1].lastUsed = 1
    /\ poolCall.op = "getConnection"
    /\ poolCall.ret = connections[1].eventSource
    /\ closeCount[connections[1].eventSource] = 0
    /\ timers = {[timer |-> connections[1].cleanupTimer, operationId |-> connections[1].id,
                  fireAt |-> 30000]}

\* The timer t is the cleanup timer of the entry conn, due 30 s after the
\* entry was created.
TimerOf(t, conn) ==
    /\ t.timer = conn.cleanupTimer
    /\ t.operationId = conn.id
    /\ t.fireAt = conn.createdAt + 30000

\* C28: every pending expiry timer is the timer of an entry that is in the
\* pool, so the timer of an entry removed by closeConnection, by eviction or
\* by closeAll is no longer pending and never fires; and a timer that fires
\* closes the EventSource of its own entry and no other, 30 s or more after
\* that entry was created.
C28_RemovalCancelsExpiry ==
    /\ [](\A t \in timers : \E i \in 1..Len(connections) : TimerOf(t, connections[i]))
    /\ [][poolCall'.op = "expire" /\ poolCall' # poolCall
            => \E t \in timers \ timers' : \E i \in 1..Len(connections) :
                  /\ TimerOf(t, connections[i])
                  /\ now >= connections[i].createdAt + 30000
                  /\ poolCall'.closed = {connections[i].eventSource}
                  /\ timers' = timers \ {t}]_vars

\* The entry under id 1 was closed and, 30 s after its creation, a new entry
\* was created under id 1: the new entry is open and only its own timer, due
\* in 30 s, is pending.
C28_Witness ==
    /\ now = 30000
    /\ Len(connections) = 1
    /\ connections[1].id = 1
    /\ connections[1].eventSource = 2
    /\ connections[1].createdAt = 30000
    /\ closeCount[1] = 1
    /\ closeCount[2] = 0
    /\ timers = {[timer |-> 2, operationId |-> 1, fireAt |-> 60000]}

----------------------------------------------------------------------------
(* Properties of executeWithRetry, continued *)

\* fn is invoked in this step.
Invoked == Len(invocations') = Len(invocations) + 1

\* C29: fn is invoked only when no wait is pending, and every earlier
\* invocation was followed by a wait that has elapsed; after the failed
\* invocation with index i (from 0) the executor waits 1000 * 2^i ms if the
\* failure is retryable and i + 1 < 3, and that wait is over before the next
\* invocation; there is no wait before the first invocation, after the third,
\* after a client error or after a success: the executor has settled then.
C29_BackoffBetweenAttempts ==
    [][/\ Invoked
          => LET i == Len(invocations)
                 o == invocations'[i + 1]
             IN  /\ retry.pc = "call"
                 /\ Len(retry.waits) = i
                 /\ \A k \in 1..i : retry.waits[k] = 1000 * 2 ^ (k - 1)
                 /\ IF RetryableFailure(o) /\ i + 1 < 3
                    THEN /\ retry'.pc = "wait"
                         /\ retry'.waits = Append(retry.waits, 1000 * 2 ^ i)
                    ELSE /\ retry'.pc \in {"done", "threw"}
                         /\ retry'.waits = retry.waits
       /\ retry.pc = "wait"
          => /\ invocations' = invocations
             /\ retry'.waits = retry.waits
             /\ retry'.pc = "call"
       /\ retry.pc = "idle" => (~Invoked /\ retry'.waits = <<>>)]_vars

\* Two retryable failures: the executor waited 1000 ms after the first and is
\* waiting 2000 ms after the second.
C29_Witness ==
    /\ retry.pc = "wait"
    /\ retry.waits = <<1000, 2000>>
    /\ Len(invocations) = 2
    /\ AllRetryable(2)

\* The HTTP status the failure carries: the status of
\* `HTTP ${status}: ${statusText}`, or the status a message starts with.
CarriesStatus(message, status) ==
    \/ /\ Len(message) >= 4
       /\ message[1] = "HTTP "
       /\ SubSeq(message, 2, 4) = Digits(status)
    \/ /\ Len(message) >= 3
       /\ SubSeq(message, 1, 3) = Digits(status)

\* A transport error, or a failure that carries a status other than 400, 401
\* and 403, whatever the rest of its message says.
ServerOrTransportFailure(o) ==
    /\ ~o.ok
    /\ o.message # NoMessage
    /\ \A status \in {400, 401, 403} : ~CarriesStatus(o.message, status)

\* C30: when the executor has settled after failures that are all transport
\* errors or carry a status other than 400, 401 and 403, fn was invoked three
\* times; and if it settled after fewer failures, the last one carries 400,
\* 401 or 403.
C30_RetriedByStatus ==
    (retry.pc = "done" /\ Len(invocations) > 0 /\ ~invocations[Len(invocations)].ok)
    => /\ (\A i \in 1..Len(invocations) : ServerOrTransportFailure(invocations[i]))
             => Len(invocations) = 3
       /\ Len(invocations) < 3
             => ~ServerOrTransportFailure(invocations[Len(invocations)])

----------------------------------------------------------------------------
(* Properties of callTool and of the workspace session *)

\* The text is the JSON of an object that has the property key at its top
\* level.
HasKey(text, key) == Includes(text, <<"\n", "  ">> \o Quote(key) \o <<": ">>)

\* Reading the property key of that object gives value: undefined if the
\* object lacks the property.
HasField(text, key, value) ==
    IF value = Undefined THEN ~HasKey(text, key)
    ELSE LET member == <<"\n", "  ">> \o Quote(key) \o <<": ">>
                           \o StringifyIndented(value, 1)
         IN  \/ Includes(text, member \o <<",">>)
             \/ Includes(text, member \o <<"\n", "}">>)

\* C11: callTool never rejects: every call of a session tool, whatever its
\* arguments and whatever the remote service answers, resolves with a result
\* of type 'text'.
C11_CallToolNeverRejects ==
    sessionCall.outcome # "none"
    => (sessionCall.outcome = "resolved" /\ sessionCall.ret.type = "text")

\* C12: a callTool of a cacheable tool, made while the result that a
\* completed call stored for the same tool, argument content and active
\* context has not expired, sends no request, returns the stored result and
\* adds one to cacheHits.
C12_CacheHitServesStored ==
    [][\A name \in FacadeTools, args \in CacheArgs :
        LET key == generateKey(name, args, activeGraphId)
        IN  (/\ CallTool(name, args)
             /\ isCacheable(name)
             /\ key \in DOMAIN stored
             /\ now < stored[key].expiresAt)
            => /\ toolCall'.pc = "done"
               /\ toolCall'.requests = <<>>
               /\ toolCall'.ret = stored[key].value
               /\ metrics'.cacheHits = metrics.cacheHits + 1]_vars

\* A call in a derived workspace was served from the cache, after a miss in
\* another context.
C12_Witness ==
    /\ toolCall.pc = "done"
    /\ toolCall.requests = <<>>
    /\ toolCall.ret \in ToolResults
    /\ metrics.cacheHits = 1
    /\ activeGraphId = Str("ws1")
    /\ generateKey(toolCall.name, toolCall.args, activeGraphId) \in DOMAIN stored

\* The keys of the allow-listed tools.
AllowListedKeys ==
    {generateKey(name, args, ws) :
        name \in {"get-graph-schema", "get-graph-info", "describe-graph-structure"},
        args \in CacheArgs, ws \in GraphIds}

\* The call of a tool that is not on the allow-list left the cache and
\* cacheHits as they were.
CacheUntouched ==
    /\ UNCHANGED <<cache, cacheExpiry>>
    /\ metrics'.cacheHits = metrics.cacheHits

\* C13 as stated: every callTool of a tool that is not on the allow-list, the
\* session tools among them, leaves the cache and cacheHits alone and sends
\* a request, and the cache holds keys of allow-listed tools only.
C13_NotAllowListedAlwaysFetches ==
    [][/\ \A name \in FacadeTools, args \in CacheArgs :
            (CallTool(name, args) /\ ~isCacheable(name))
            => (CacheUntouched /\ toolCall'.requests # <<>>)
       /\ \A resp \in FacadeCreateResponses :
            CreateWorkspace(FacadeCreateArgs, resp)
            => (CacheUntouched /\ sessionCall'.requests # <<>>)
       /\ \A args \in FacadeSwitchArgs :
            SwitchWorkspace(args)
            => (CacheUntouched /\ sessionCall'.requests # <<>>)
       /\ DOMAIN cache' \subseteq AllowListedKeys]_vars

\* C13, amended: every callTool of a tool that is not on the allow-list
\* leaves the cache and cacheHits alone, and the cache holds keys of
\* allow-listed tools only; a tool of the remote service and create-workspace
\* send a request, switch-workspace is answered locally and sends none.
C13_NotAllowListedBypassesCache ==
    [][/\ \A name \in FacadeTools, args \in CacheArgs :
            (CallTool(name, args) /\ ~isCacheable(name))
            => (CacheUntouched /\ toolCall'.requests # <<>>)
       /\ \A resp \in FacadeCreateResponses :
            CreateWorkspace(FacadeCreateArgs, resp)
            => (CacheUntouched /\ sessionCall'.requests # <<>>)
       /\ \A args \in FacadeSwitchArgs :
            SwitchWorkspace(args)
            => (CacheUntouched /\ sessionCall'.requests = <<>>)
       /\ DOMAIN cache' \subseteq AllowListedKeys]_vars

\* A tool that is not on the allow-list was answered by the service while
\* the cache holds the result of an allow-listed one.
C13_Witness ==
    /\ toolCall.name = "read-graph-cypher"
    /\ toolCall.pc = "done"
    /\ toolCall.ret \in ToolResults
    /\ toolCall.requests # <<>>
    /\ DOMAIN cache # {}
    /\ metrics.cacheHits = 0
    /\ sessionCall.name = "switch-workspace"

\* C14: after every session operation, activeGraphId is a key of the
\* workspaces map.
C14_ActiveIsKnown == WsHas(workspaces, activeGraphId)

\* C15: the workspaces map holds exactly one entry of type 'primary', and its
\* id is primaryGraphId.
C15_ExactlyOnePrimary ==
    /\ \E i \in 1..Len(workspaces) :
          workspaces[i].id = primaryGraphId /\ workspaces[i].meta.type = Str("primary")
    /\ \A i \in 1..Len(workspaces) :
          workspaces[i].meta.type = Str("primary") => workspaces[i].id = primaryGraphId

\* C16: switch-workspace 'primary', issued while another workspace is
\* active, reports success and makes primaryGraphId the active graph.
C16_PrimaryAliasRestores ==
    [][(/\ SwitchWorkspace(Obj(<<[k |-> "workspace_id", v |-> Str("primary")]>>))
        /\ activeGraphId # primaryGraphId)
       => /\ sessionCall'.outcome = "resolved"
          /\ HasField(sessionCall'.ret.text, "success", Bool(TRUE))
          /\ activeGraphId' = primaryGraphId]_vars

\* The id a switch-workspace call names, 'primary' standing for the primary
\* graph id.
SwitchTarget(args) ==
    IF GetProp(args, "workspace_id") = Str("primary") THEN primaryGraphId
    ELSE GetProp(args, "workspace_id")

\* C17: a switch-workspace that names an id that is not in the workspaces map
\* returns the error 'Unknown workspace' with the known ids, sends no
\* request, and leaves activeGraphId, the map and workspaceSwitches alone.
C17_UnknownWorkspaceRefused ==
    [][\A args \in SwitchArgs :
        (SwitchWorkspace(args) /\ ~WsHas(workspaces, SwitchTarget(args)))
        => /\ sessionCall'.outcome = "resolved"
           /\ HasField(sessionCall'.ret.text, "error", Str("Unknown workspace"))
           /\ HasField(sessionCall'.ret.text, "available_workspaces",
                       Arr(WsKeys(workspaces)))
           /\ sessionCall'.requests = <<>>
           /\ UNCHANGED <<activeGraphId, workspaces>>
           /\ metrics'.workspaceSwitches = metrics.workspaceSwitches]_vars

\* A switch to an unknown id was refused in a derived workspace, two ids
\* being known.
C17_Witness ==
    /\ sessionCall.name = "switch-workspace"
    /\ HasField(sessionCall.ret.text, "error", Str("Unknown workspace"))
    /\ activeGraphId # primaryGraphId
    /\ Len(workspaces) = 2
    /\ ~WsHas(workspaces, SwitchTarget(sessionCall.args))

\* C18: a switch-workspace that names a known id X leaves X active and the
\* map as it was; if X was active already it reports 'Already in workspace'
\* and does not count, else it reports switched_from and switched_to and
\* adds one to workspaceSwitches.
C18_SwitchToKnown ==
    [][\A args \in SwitchArgs :
        (SwitchWorkspace(args) /\ WsHas(workspaces, SwitchTarget(args)))
        => LET X == SwitchTarget(args)
               text == sessionCall'.ret.text
           IN  /\ sessionCall'.outcome = "resolved"
               /\ activeGraphId' = X
               /\ workspaces' = workspaces
               /\ HasField(text, "success", Bool(TRUE))
               /\ IF activeGraphId = X
                  THEN /\ Includes(text, Quote("message")
                                         \o <<": ", "\"", "Already in workspace \"">>)
                       /\ metrics'.workspaceSwitches = metrics.workspaceSwitches
                  ELSE /\ HasField(text, "switched_from", activeGraphId)
                       /\ HasField(text, "switched_to", X)
                       /\ metrics'.workspaceSwitches = metrics.workspaceSwitches + 1]_vars

\* A switch from one derived workspace to another was reported.
C18_Witness ==
    /\ sessionCall.name = "switch-workspace"
    /\ HasField(sessionCall.ret.text, "switched_to", activeGraphId)
    /\ \E id \in GraphIds \ {primaryGraphId, activeGraphId} :
          HasField(sessionCall.ret.text, "switched_from", id)
    /\ activeGraphId # primaryGraphId
    /\ metrics.workspaceSwitches = 3

\* The answers by which the service reports that it created workspace W.
CreatedResponses(W) ==
    {Body(Envelope(JsonText(Obj(<<[k |-> "workspace_id", v |-> W]>>)))),
     Body(Obj(<<[k |-> "workspace_id", v |-> W]>>))}

\* C19: after a create-workspace whose request the service answered with
\* success and the id W, W is in the map with type 'workspace' and parent
\* primaryGraphId, W is active, and the payload names the graph that was
\* active before as previous_workspace.
C19_CreateImpliesSwitch ==
    [][\A args \in CreateArgs, W \in GraphIds :
        \A resp \in CreatedResponses(W) \cap CreateResponses :
            (CreateWorkspace(args, resp) /\ sessionCall'.requests # <<>>)
            => /\ \E i \in 1..Len(workspaces') :
                     /\ workspaces'[i].id = W
                     /\ workspaces'[i].meta.type = Str("workspace")
                     /\ workspaces'[i].meta.parent_graph_id = primaryGraphId
               /\ activeGraphId' = W
               /\ sessionCall'.outcome = "resolved"
               /\ HasField(sessionCall'.ret.text, "previous_workspace", activeGraphId)]_vars

\* A workspace was created while another derived workspace was active.
C19_Witness ==
    /\ sessionCall.name = "create-workspace"
    /\ sessionCall.outcome = "resolved"
    /\ HasField(sessionCall.ret.text, "previous_workspace", Str("ws1"))
    /\ HasField(sessionCall.ret.text, "workspace_id", Str("ws2"))
    /\ activeGraphId = Str("ws2")
    /\ WsKeySet(workspaces) = GraphIds

\* The call resolved with a payload that carries an error field and left the
\* map and the active graph as they were.
FailedWithoutEffect ==
    /\ sessionCall'.outcome = "resolved"
    /\ HasKey(sessionCall'.ret.text, "error")
    /\ UNCHANGED <<workspaces, activeGraphId>>

\* C20: a create-workspace, delete-workspace or list-workspaces whose request
\* fails (no connection, a status that is not ok, a result with an error
\* field) resolves with a failure payload, for list-workspaces the local set
\* with a fallback note when the request itself failed, and leaves the
\* workspaces map and activeGraphId as they were.
C20_RemoteFailureKeepsState ==
    [][/\ \A args \in CreateArgs, resp \in RequestFailures \cup ErrorBodies :
            (CreateWorkspace(args, resp) /\ sessionCall'.requests # <<>>)
            => FailedWithoutEffect
       /\ \A args \in DeleteArgs, resp \in RequestFailures \cup ErrorBodies :
            DeleteWorkspace(args, resp) => FailedWithoutEffect
       /\ \A resp \in ErrorBodies : ListWorkspaces(resp) => FailedWithoutEffect
       /\ \A resp \in RequestFailures :
            ListWorkspaces(resp)
            => /\ sessionCall'.outcome = "resolved"
               /\ HasField(sessionCall'.ret.text, "_note",
                           Str("Fallback to client-side tracking due to error"))
               /\ HasField(sessionCall'.ret.text, "total_workspaces",
                           Num(Len(workspaces)))
               /\ UNCHANGED <<workspaces, activeGraphId>>]_vars

\* The step is a callTool of the session tool name: only such a call counts
\* a request and leaves the call of a remote tool as it was, and it records
\* its name.
SessionStep(name) ==
    /\ sessionCall'.name = name
    /\ metrics'.totalRequests = metrics.totalRequests + 1
    /\ toolCall' = toolCall

\* The answers by which the service reports that it deleted the workspace.
DeletedResponses ==
    {resp \in DeleteResponses :
        resp.kind = "body" /\ ~Truthy(GetOr(parseResult(resp.data), "error"))}

ListedResponses ==
    {Body(Envelope(JsonText(Obj(<<[k |-> "workspaces", v |-> Arr(list)],
                                  [k |-> "primary_graph_id", v |-> primaryGraphId]>>)))) :
        list \in ServerLists}

\* The list in such an answer.
ListOf(resp) ==
    GetProp(GetProp(GetProp(resp.data, "result"), "text").json, "workspaces").arr

\* The ids in a list of the service.
ListedIds(list) == {GetProp(list[i], "workspace_id") : i \in 1..Len(list)}

\* The list as the payload returns it: each entry with its active mark.
MarkedActive(list, active) ==
    Arr([i \in 1..Len(list) |->
            Obj(list[i].obj
                \o <<[k |-> "active",
                      v |-> Bool(GetProp(list[i], "workspace_id") = active)]>>)])

\* C22: after a list-workspaces that the service answered with a list, the
\* keys of the map are exactly the ids of that list; activeGraphId is
\* primaryGraphId if the graph that was active is not among them and is
\* unchanged otherwise; and the payload marks as active exactly the entries
\* whose id is activeGraphId.
C22_ListReplacesMap ==
    [][(SessionStep("list-workspaces") /\ sessionCall'.resp \in ListedResponses)
       => LET list == ListOf(sessionCall'.resp)
          IN  /\ sessionCall'.outcome = "resolved"
              /\ WsKeySet(workspaces') = ListedIds(list)
              /\ activeGraphId' = IF activeGraphId \in ListedIds(list)
                                  THEN activeGraphId ELSE primaryGraphId
              /\ HasField(sessionCall'.ret.text, "workspaces",
                          MarkedActive(list, activeGraphId'))]_vars

\* A listing dropped the active workspace, known only locally, and made the
\* primary graph active; the list names two workspaces.
C22_Witness ==
    /\ sessionCall.name = "list-workspaces"
    /\ sessionCall.outcome = "resolved"
    /\ HasField(sessionCall.ret.text, "total_workspaces", Num(2))
    /\ HasField(sessionCall.ret.text, "active_workspace", primaryGraphId)
    /\ WsKeySet(workspaces) = {primaryGraphId, Str("ws1")}
    /\ activeGraphId = primaryGraphId
    /\ metrics.workspaceSwitches = 2

\* The names callTool routes to the workspace session.
SessionTools ==
    {"create-workspace", "switch-workspace", "delete-workspace", "list-workspaces"}

\* C25: a callTool of a session tool leaves the result cache, cacheHits and
\* the retry executor as they were and sends at most one request, none for
\* switch-workspace, also when that request fails with an error that
\* executeWithRetry would retry.
C25_SessionToolsBypassCacheAndRetry ==
    [][\A name \in SessionTools :
        SessionStep(name)
        => /\ UNCHANGED <<cache, cacheExpiry, retry, invocations>>
           /\ metrics'.cacheHits = metrics.cacheHits
           /\ Len(sessionCall'.requests) <= 1
           /\ (name = "switch-workspace" => sessionCall'.requests = <<>>)
           /\ (sessionCall'.resp \in RequestFailures
               => Len(sessionCall'.requests) = 1)]_vars

\* A delete-workspace met a failure that executeWithRetry would retry (no
\* status 400, 401 or 403 in its message) and sent one request only.
C25_Witness ==
    /\ sessionCall.name = "delete-workspace"
    /\ sessionCall.resp \in RequestFailures
    /\ ~isClientError(requestFailure(sessionCall.resp))
    /\ Len(sessionCall.requests) = 1
    /\ HasField(sessionCall.ret.text, "error", Str("Failed to delete workspace"))
    /\ retry = NoRetry

\* C26: every request that create-workspace, delete-workspace or
\* list-workspaces sent went to primaryGraphId, whatever graph is active.
C26_WorkspaceCrudTargetsPrimary ==
    sessionCall.name \in SessionTools
    => \A i \in 1..Len(sessionCall.requests) : sessionCall.requests[i] = primaryGraphId

\* A derived workspace being active, a list-workspaces that kept it active
\* sent its request to the primary graph.
C26_Witness ==
    /\ sessionCall.name = "list-workspaces"
    /\ sessionCall.resp \in ListedResponses
    /\ activeGraphId = Str("ws1")
    /\ ~HasKey(sessionCall.ret.text, "_note")
    /\ sessionCall.requests = <<primaryGraphId>>

----------------------------------------------------------------------------
(* Properties of aggregateStreamedResults *)

EventKind(e) == GetProp(e, "event").str

EventData(e) == GetProp(e, "data")

\* The first element of s that satisfies P; some element does.
FirstWith(s, P(_)) ==
    s[CHOOSE i \in 1..Len(s) : P(s[i]) /\ \A j \in 1..(i - 1) : ~P(s[j])]

IsErrorEvent(e) == EventKind(e) \in {"error", "operation_error"}

\* A query_result event that carries a result.
IsQueryResultWithResult(e) ==
    EventKind(e) = "query_result" /\ "result" \in KeySet(EventData(e))

IsChunkEvent(e) == EventKind(e) \in {"query_chunk", "data_chunk"}

IsCompletionEvent(e) ==
    EventKind(e) \in {"operation_completed", "complete", "query_complete", "result",
                      "query_result"}

CarriesColumns(e) == "columns" \in KeySet(EventData(e))

\* The text of a result: a string as it is, a structure as indented JSON.
TextOf(result) ==
    IF DOMAIN result = {"str"} THEN <<result.str>> ELSE StringifyIndented(result, 0)

\* The message of an error event.
MessageOf(e) ==
    IF "error" \in KeySet(EventData(e)) THEN GetProp(EventData(e), "error").str
    ELSE IF "message" \in KeySet(EventData(e)) THEN GetProp(EventData(e), "message").str
    ELSE "Tool execution failed"

\* The rows of the chunks, in arrival order.
RECURSIVE RowsOf(_)
RowsOf(chunks) ==
    IF chunks = <<>> THEN <<>>
    ELSE (IF "data" \in KeySet(EventData(Head(chunks)))
          THEN GetProp(EventData(Head(chunks)), "data").arr ELSE <<>>)
         \o RowsOf(Tail(chunks))

\* The table merged from the chunk events of evs.
TableOf(evs) ==
    LET chunks == SelectSeq(evs, IsChunkEvent)
        rows == RowsOf(chunks)
    IN  Obj(<<[k |-> "columns",
               v |-> IF \E i \in 1..Len(chunks) : CarriesColumns(chunks[i])
                     THEN GetProp(EventData(FirstWith(chunks, CarriesColumns)), "columns")
                     ELSE Arr(<<>>)],
              [k |-> "data", v |-> Arr(rows)],
              [k |-> "row_count", v |-> Num(Len(rows))]>>)

Some(evs, P(_)) == \E i \in 1..Len(evs) : P(evs[i])

\* The chunks of evs hold a row or a column list.
ChunksCarryData(evs) ==
    Some(evs, IsChunkEvent)
        /\ (RowsOf(SelectSeq(evs, IsChunkEvent)) # <<>> \/ Some(evs, CarriesColumns))

\* C23: the aggregate of every event sequence is decided in this order: an
\* error event present gives 'Error: ' and its message; else a query_result
\* event with a result gives that result; else chunk events that hold a row
\* or a column list give the merged table; else a completion event gives its
\* result, or its payload if it has none; else the events as JSON.
C23_StrategiesInPriorityOrder ==
    aggregated # Null
    => /\ aggregated.type = "text"
       /\ aggregated.text =
            IF Some(events, IsErrorEvent)
            THEN <<"Error: ", MessageOf(FirstWith(events, IsErrorEvent))>>
            ELSE IF Some(events, IsQueryResultWithResult)
            THEN TextOf(GetProp(EventData(FirstWith(events, IsQueryResultWithResult)),
                                "result"))
            ELSE IF ChunksCarryData(events)
            THEN StringifyIndented(TableOf(events), 0)
            ELSE IF Some(events, IsCompletionEvent)
            THEN LET e == FirstWith(events, IsCompletionEvent)
                 IN  TextOf(IF "result" \in KeySet(EventData(e))
                            THEN GetProp(EventData(e), "result") ELSE EventData(e))
            ELSE StringifyIndented(Arr(events), 0)

\* The events hold a chunk event and no event of a higher priority.
ChunksDecide ==
    /\ aggregated # Null
    /\ Some(events, IsChunkEvent)
    /\ ~Some(events, IsErrorEvent)
    /\ ~Some(events, IsQueryResultWithResult)

\* C24 as stated: whenever chunk events are aggregated and no event of a
\* higher priority is present, the result is the table whose columns are the
\* column list of the first chunk that carries one ([] if none does), whose
\* data are the rows of all chunks in arrival order, and whose row_count is
\* the number of rows.
C24_ChunksAlwaysMerge ==
    ChunksDecide => aggregated.text = StringifyIndented(TableOf(events), 0)

\* C24, amended: the same, provided the chunks hold at least one row or a
\* column list; chunks that hold neither give no table.
C24_ChunksMergeInArrivalOrder ==
    /\ (ChunksDecide /\ ChunksCarryData(events))
          => aggregated.text = StringifyIndented(TableOf(events), 0)
    /\ (ChunksDecide /\ ~ChunksCarryData(events))
          => ~HasKey(aggregated.text, "row_count")

\* A row of two numbers.
Row(a, b) == Arr(<<Num(a), Num(b)>>)

\* Three chunks were merged: rows only, then a column list only, then rows
\* under another column list; the columns are those of the second chunk.
C24_Witness ==
    /\ aggregated # Null
    /\ Len(events) = 3
    /\ \A i \in 1..3 : IsChunkEvent(events[i])
    /\ ~CarriesColumns(events[1])
    /\ CarriesColumns(events[2]) /\ CarriesColumns(events[3])
    /\ HasField(aggregated.text, "columns", Arr(<<Str("c3")>>))
    /\ HasField(aggregated.text, "data", Arr(<<Row(3, 4), Row(1, 2)>>))
    /\ HasField(aggregated.text, "row_count", Num(2))

----------------------------------------------------------------------------
(* Properties of the cache's expiry boundary and of the reported attempts *)

\* C31: a lookup at a time up to and including the expiresAt of the entry
\* returns the stored value and leaves the entry in the cache, so a lookup
\* right after a store with ttl 0 returns the value; a lookup after expiresAt
\* returns null and removes the entry.
C31_LiveThroughExpiresAt ==
    [][\A tool \in CacheTools, args \in CacheArgs, ws \in CacheWorkspaces :
        CacheGet(tool, args, ws)
        => LET key == generateKey(tool, args, ws)
           IN  /\ (key \in DOMAIN cache /\ now <= cacheExpiry[key])
                     => /\ cacheCall'.ret = cache[key]
                        /\ key \in DOMAIN cache'
               /\ (key \in DOMAIN cache /\ now > cacheExpiry[key])
                     => /\ cacheCall'.ret = Null
                        /\ key \notin DOMAIN cache']_vars

\* The executor returned its error text.
ReturnedErrorText ==
    /\ retry.pc = "done"
    /\ Len(invocations) > 0
    /\ ~invocations[Len(invocations)].ok

\* C40: when the executor returns 'Error after N attempts: ...', fn was
\* invoked N times in that call.
C40_ReportsRealAttempts ==
    ReturnedErrorText
    => \E n \in 1..3 :
          /\ SubSeq(retry.result.text, 1, 3) = <<"Error after ", ToString(n), " attempts: ">>
          /\ Len(invocations) = n

----------------------------------------------------------------------------
(* Properties of the cache behind callTool *)

\* The text of the result reports a failure.
ReportsFailure(result) ==
    /\ Len(result.text) > 0
    /\ result.text[1] \in {"Error: ", "Query failed: ", "Query was cancelled",
                           "Query timed out waiting for result",
                           "Error parsing streaming response: ", "Error after "}

\* C39: no entry of the result cache holds a result whose text reports a
\* failure, and no call is served such a result from the cache.
C39_FailuresNeverCached ==
    /\ \A key \in DOMAIN cache : ~ReportsFailure(cache[key])
    /\ (toolCall.pc = "done" /\ toolCall.requests = <<>>) => ~ReportsFailure(toolCall.ret)

\* callTool returned a value from the result cache in this step.
ServedFromCache ==
    /\ metrics'.cacheHits = metrics.cacheHits + 1
    /\ toolCall'.pc = "done"
    /\ toolCall'.requests = <<>>

\* C36: a value that callTool returns from the result cache while the active
\* context is C came from a call-tool request that was sent to graph C.
C36_CacheHitFromActiveGraph ==
    [][ServedFromCache
       => LET key == generateKey(toolCall'.name, toolCall'.args, activeGraphId)
          IN  /\ key \in DOMAIN stored
              /\ toolCall'.ret = stored[key].value
              /\ stored[key].graph = activeGraphId]_vars

----------------------------------------------------------------------------
(* Properties of handleNDJSONResponse *)

\* The lines of the text that are well-formed JSON, parsed, in order; the
\* piece after the last line break counts as a line if it is not blank.
RECURSIVE ParsedLines(_, _)
ParsedLines(lines, i) ==
    IF i > Len(lines) THEN <<>>
    ELSE (IF JsonParse(lines[i]) # Undefined THEN <<JsonParse(lines[i])>> ELSE <<>>)
         \o ParsedLines(lines, i + 1)

\* C32: when the stream has ended, the events collected are the parsed
\* well-formed lines of the whole text in order, however the text was cut
\* into chunks; a malformed or blank line contributes nothing and the lines
\* after it are parsed all the same.
C32_ChunkingIsInvisible ==
    ndjson.done => events = ParsedLines(Split(ndjson.body, 1, <<>>), 1)

\* The text 'x', line break, '12' was read in a chunk of three characters
\* and one of one, which cuts the last line in two: the malformed line is
\* dropped and the unterminated last line gives the one event 12.
C32_Witness ==
    /\ ndjson.done
    /\ ndjson.body = <<"x", "\n", "1", "2">>
    /\ ndjson.chunks = <<3, 1>>
    /\ events = <<Num(12)>>
    /\ aggregated = [type |-> "text", text |-> StringifyIndented(Arr(events), 0)]

----------------------------------------------------------------------------
(* Properties of handleQueuedResponse *)

\* The status the last poll was answered with, if it was answered.
LastStatus == IF queued.last = Null THEN Undefined ELSE GetOr(queued.last.status, "status")

\* C33: the handler polls the status at most 30 times and every poll that
\* does not end the call counts as one attempt; when the call has ended it
\* returned a text: the payload of the result request after 'completed',
\* 'Query failed: ...' after 'failed', the cancellation text after
\* 'cancelled', and the timeout text after the 30th poll that did not end
\* the call; and a call that is polling eventually ends.
C33_QueuedAlwaysEnds ==
    /\ [](/\ queued.polls <= 30
          /\ queued.pc = "wait" => (queued.attempts = queued.polls /\ queued.polls < 30)
          /\ (queued.pc = "done" /\ queued.polls > 0)
                => /\ queued.result.type = "text"
                   /\ queued.result.text =
                        (IF LastStatus = Str("completed") /\ queued.last.resultFetch = "ok"
                         THEN StringifyIndented(queued.last.result, 0)
                         ELSE IF LastStatus = Str("failed")
                         THEN <<"Query failed: ">>
                              \o (IF HasKey(StringifyIndented(queued.last.status, 0), "error")
                                  THEN <<"E1">> ELSE <<"Unknown error">>)
                         ELSE IF LastStatus = Str("cancelled")
                         THEN <<"Query was cancelled">>
                         ELSE <<"Query timed out waiting for result">>)
                   /\ (queued.result.text = <<"Query timed out waiting for result">>)
                         => (queued.polls = 30 /\ queued.attempts = 30))
    /\ (queued.pc = "wait") ~> (queued.pc = "done")

\* Thirty polls that failed or were answered 'not yet': the timeout text.
C33_Witness ==
    /\ queued.pc = "done"
    /\ queued.polls = 30
    /\ queued.last.fetch = "throws"
    /\ queued.result = [type |-> "text", text |-> <<"Query timed out waiting for result">>]

----------------------------------------------------------------------------
(* Properties of handleSSEResponse *)

\* The EventSource h has been closed and no entry of the pool holds it.
Released(h) ==
    /\ closeCount[h] > 0
    /\ \A i \in 1..Len(connections) : connections[i].eventSource # h

C35_SettledMeansReleased ==
    \A c \in 1..Len(sse) : sse[c].pc # "waiting" => Released(sse[c].eventSource)

\* C37: the EventSource of a call that is waiting is closed only in a step
\* that settles the call: by a terminal event or by the call's own timeout.
C37_PoolSparesWaitingCalls ==
    [][\A c \in 1..Len(sse) :
          (/\ sse[c].pc = "waiting"
           /\ closeCount'[sse[c].eventSource] > closeCount[sse[c].eventSource])
          => sse'[c].pc # "waiting"]_vars

====
